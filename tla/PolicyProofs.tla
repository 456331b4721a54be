---------------------------- MODULE PolicyProofs ----------------------------
(***************************************************************************)
(* Proofs about the virtual-key meters of module Policy, for any number of *)
(* keys, requests and snapshots.                                           *)
(***************************************************************************)
EXTENDS Policy, FiniteSetTheorems, TLAPS

\* The day and the month of a time are natural numbers.
LEMMA WindowNumbers ==
    ASSUME NEW t \in Nat PROVE DayOf(t) \in Nat /\ MonthOf(t) \in Nat
<1>1. \A n \in Nat, d \in Nat \ {0} : n \div d \in Nat
  OBVIOUS
<1>2. DayOf(t) \in Nat
  BY <1>1, TimeAssumption DEF DayOf
<1> QED
  BY <1>1, <1>2, TimeAssumption DEF MonthOf

\* Windows, ledgers and buckets keep their types under the helpers.
LEMMA LedgerTypes ==
    ASSUME NEW e \in Ledger, NEW vk \in VirtualKey, NEW t \in Nat, NEW c \in Nat
    PROVE  /\ Pruned(e, budgetWindow(vk, t)) \in Ledger
           /\ Pruned(e, DayWindow(t)) \in Ledger
           /\ Charged(e, budgetWindow(vk, t), c) \in Ledger
           /\ Charged(e, DayWindow(t), c) \in Ledger
<1>1. DayWindow(t) \in Window /\ MonthWindow(t) \in Window
  BY WindowNumbers DEF DayWindow, MonthWindow, Window
<1>2. budgetWindow(vk, t) \in Window
  BY <1>1 DEF budgetWindow
<1>3. NoSpend \in Ledger
  BY DEF NoSpend, Ledger, Window
<1>4. \A w \in Window : SpendIn(e, w) \in Nat
  BY DEF SpendIn, Ledger
<1>5. \A w \in Window : Pruned(e, w) \in Ledger
  BY <1>3 DEF Pruned
<1>6. \A w \in Window : Charged(e, w, c) \in Ledger
  BY <1>4 DEF Charged, Ledger
<1> QED
  BY <1>1, <1>2, <1>5, <1>6

LEMMA BucketTypes ==
    ASSUME NEW b \in Bucket, NEW limit \in Nat, NEW t \in Nat, NEW n \in Nat
    PROVE  /\ Refill(BucketFor(b, limit, t), t) \in Bucket
           /\ Drain(Refill(BucketFor(b, limit, t), t), n) \in Bucket
<1>0. Minute \in Nat /\ limit * Minute \in Int /\ n * Minute \in Int
  BY TimeAssumption
<1>1. BucketFor(b, limit, t) \in Bucket
  BY <1>0 DEF BucketFor, NewBucket, Bucket
<1>2. \A c \in Bucket : Refill(c, t) \in Bucket
  <2> TAKE c \in Bucket
  <2>1. c.tokens \in Int /\ c.last \in Nat /\ c.rpm \in Nat
    BY DEF Bucket
  <2>2. c.tokens + (t - c.last) * c.rpm \in Int /\ c.rpm * Minute \in Int
    BY <2>1, <1>0
  <2> QED
    BY <2>1, <2>2 DEF Refill, Bucket
<1>3. \A c \in Bucket : Drain(c, n) \in Bucket
  BY <1>0 DEF Drain, Bucket
<1> QED
  BY <1>1, <1>2, <1>3

\* The idle request is a request.
LEMMA IdleType == Idle \in Request
<1>1. Unlimited \in VirtualKey
  BY DEF Unlimited, VirtualKey
<1>2. (CHOOSE k \in Keys : TRUE) \in Keys
  BY KeyAssumption
<1> QED
  BY <1>1, <1>2 DEF Idle, Arrived, Request

\* The initial state has the types of the code's fresh maps.
LEMMA InitType == Init => TypeOK
<1> SUFFICES ASSUME Init PROVE TypeOK
  OBVIOUS
<1>1. NoBucket \in Bucket /\ NoSpend \in Ledger
  BY DEF NoBucket, Bucket, NoSpend, Ledger, Window
<1> QED
  BY <1>1, IdleType DEF Init, TypeOK

\* The meters keep their types through Begin and through Finalize.
LEMMA BeginMetersType ==
    ASSUME TypeOK, NEW k \in Keys, NEW vk \in VirtualKey, NEW t \in Nat, NEW s \in Int,
           BeginMeters(k, vk, t, s)
    PROVE  /\ inflight' \in [Keys -> Nat]
           /\ buckets' \in [Keys -> Bucket] /\ tpmBuckets' \in [Keys -> Bucket]
           /\ spend' \in [Keys -> Ledger] /\ teamSpend' \in [Teams -> Ledger]
           /\ taken' \in [Keys -> Nat]
<1>1. vk.rpm \in Nat /\ vk.tpm \in Nat /\ vk.team \in Teams \cup {NoTeam}
  BY DEF VirtualKey
<1>2. effectiveTeamBudget(vk) > 0 => vk.team \in Teams
  BY <1>1 DEF effectiveTeamBudget
<1>3. inflight' \in [Keys -> Nat] /\ taken' \in [Keys -> Nat]
  BY DEF TypeOK, BeginMeters
<1>4. Drain(RpmBucket(k, vk, t), IF s > 2 THEN 1 ELSE 0) \in Bucket
  BY <1>1, BucketTypes DEF TypeOK, RpmBucket
<1>5. TpmBucket(k, vk, t) \in Bucket
  BY <1>1, BucketTypes DEF TypeOK, TpmBucket
<1>6. buckets' \in [Keys -> Bucket]
  BY <1>4 DEF TypeOK, BeginMeters
<1>7. tpmBuckets' \in [Keys -> Bucket]
  BY <1>5 DEF TypeOK, BeginMeters
<1>8. Pruned(spend[k], budgetWindow(vk, t)) \in Ledger
  BY LedgerTypes DEF TypeOK
<1>9. spend' \in [Keys -> Ledger]
  BY <1>8 DEF TypeOK, BeginMeters
<1>10. vk.team \in Teams => Pruned(teamSpend[vk.team], DayWindow(t)) \in Ledger
  BY LedgerTypes DEF TypeOK
<1>11. teamSpend' \in [Teams -> Ledger]
  BY <1>2, <1>10 DEF TypeOK, BeginMeters
<1> QED
  BY <1>3, <1>6, <1>7, <1>9, <1>11

LEMMA FinalizeMetersType ==
    ASSUME TypeOK, NEW k \in Keys, NEW vk \in VirtualKey, NEW t \in Nat,
           NEW n \in Nat, NEW c \in Nat, NEW committed \in BOOLEAN,
           FinalizeMeters(k, vk, t, n, c, committed)
    PROVE  /\ inflight' \in [Keys -> Nat]
           /\ buckets' \in [Keys -> Bucket] /\ tpmBuckets' \in [Keys -> Bucket]
           /\ spend' \in [Keys -> Ledger] /\ teamSpend' \in [Teams -> Ledger]
           /\ bill' \in [Keys -> [day : Nat, month : Nat]]
           /\ teamBill' \in [Teams -> Nat]
           /\ taken' = taken /\ takenBy' = takenBy /\ leaked' = leaked
<1>1. vk.tpm \in Nat /\ vk.team \in Teams \cup {NoTeam}
  BY DEF VirtualKey
<1>2. effectiveTeamBudget(vk) > 0 => vk.team \in Teams
  BY <1>1 DEF effectiveTeamBudget
<1>3. inflight' \in [Keys -> Nat]
  BY SMTT(30) DEF TypeOK, FinalizeMeters, ReleaseSlot
<1>4. /\ buckets' = buckets /\ taken' = taken /\ takenBy' = takenBy
      /\ leaked' = leaked
  BY DEF FinalizeMeters
<1>5. Drain(TpmBucket(k, vk, t), n) \in Bucket
  BY <1>1, BucketTypes DEF TypeOK, TpmBucket
<1>6. tpmBuckets' \in [Keys -> Bucket]
  BY <1>5 DEF TypeOK, FinalizeMeters
<1>7. Charged(spend[k], budgetWindow(vk, t), c) \in Ledger
  BY LedgerTypes DEF TypeOK
<1>8. spend' \in [Keys -> Ledger]
  BY <1>7 DEF TypeOK, FinalizeMeters
<1>9. vk.team \in Teams => Charged(teamSpend[vk.team], DayWindow(t), c) \in Ledger
  BY LedgerTypes DEF TypeOK
<1>10. teamSpend' \in [Teams -> Ledger]
  BY <1>2, <1>9 DEF TypeOK, FinalizeMeters
<1>11. bill' \in [Keys -> [day : Nat, month : Nat]]
  <2>1. /\ bill[k] \in [day : Nat, month : Nat]
        /\ bill[k].day + c \in Nat /\ bill[k].month + c \in Nat
    BY DEF TypeOK
  <2> QED
    BY <2>1 DEF TypeOK, FinalizeMeters
<1>12. teamBill' \in [Teams -> Nat]
  BY <1>1 DEF TypeOK, FinalizeMeters
<1> QED
  BY <1>3, <1>4, <1>6, <1>8, <1>10, <1>11, <1>12 DEF TypeOK

\* Every step keeps every variable in its type.
LEMMA NextType == TypeOK /\ [Next]_vars => TypeOK'
<1> SUFFICES ASSUME TypeOK, [Next]_vars PROVE TypeOK'
  OBVIOUS
<1> USE DEF meters, history
<1>0. \A r \in Requests : req[r] \in Request
  BY DEF TypeOK
<1>1. ASSUME NEW r \in Requests, NEW k \in Keys, NEW path \in Paths,
             Authenticate(r, k, path)
      PROVE  TypeOK'
  <2>1. snap[k] \in VirtualKey
    BY KeyAssumption DEF TypeOK
  <2>2. Arrived(k, path, snap[k]) \in Request
    BY <2>1, LoadAssumption DEF Arrived, Request
  <2> QED
    BY <1>1, <2>2 DEF TypeOK, Authenticate
<1>2. Idle \in Request
  BY IdleType
<1>3. ASSUME NEW r \in Requests, LeaveEarly(r) PROVE TypeOK'
  BY <1>2, <1>3 DEF TypeOK, LeaveEarly
<1>4. ASSUME NEW r \in Requests, CallBegin(r) PROVE TypeOK'
  <2>1. [req[r] EXCEPT !.pc = "beginning", !.at = now] \in Request
    BY <1>0 DEF TypeOK, Request
  <2>2. req' = [req EXCEPT ![r] = [req[r] EXCEPT !.pc = "beginning", !.at = now]]
    BY <1>4 DEF CallBegin
  <2> QED
    BY <1>4, <2>1, <2>2 DEF TypeOK, CallBegin
<1>5. ASSUME NEW r \in Requests, Begin(r) PROVE TypeOK'
  <2> DEFINE s == Stage(req[r].key, req[r].vk, req[r].at)
  <2>1. /\ req[r].key \in Keys /\ req[r].vk \in VirtualKey /\ req[r].at \in Nat
        /\ s \in Int
    BY <1>0 DEF Request, Stage
  <2>2. BeginMeters(req[r].key, req[r].vk, req[r].at, s)
    BY <1>5 DEF Begin
  <2>3. req' \in [Requests -> Request]
    <3>1. \A p \in {"running", "refused"} : [req[r] EXCEPT !.pc = p] \in Request
      BY <1>0 DEF Request
    <3>2. \/ req' = [req EXCEPT ![r] = [req[r] EXCEPT !.pc = "running"]]
          \/ req' = [req EXCEPT ![r] = [req[r] EXCEPT !.pc = "refused"]]
          \/ req' = [req EXCEPT ![r] = Idle]
      BY <1>5 DEF Begin, Become
    <3> QED
      BY <1>2, <3>1, <3>2 DEF TypeOK
  <2>4. leaked' \in [Keys -> Nat]
    <3>1. \/ leaked' = leaked
          \/ leaked' = [leaked EXCEPT ![req[r].key] = @ + 1]
      BY <1>5 DEF Begin
    <3>2. req[r].key \in Keys /\ leaked \in [Keys -> Nat]
      BY <2>1 DEF TypeOK
    <3> QED
      BY <3>1, <3>2
  <2> HIDE DEF s
  <2> QED
    BY <1>5, <2>1, <2>2, <2>3, <2>4, BeginMetersType DEF TypeOK, Begin
<1>6. ASSUME NEW r \in Requests, NEW n \in TokenCounts \cup {0},
             NEW c \in Costs \cup {0}, NEW committed \in BOOLEAN,
             CallFinalize(r, n, c, committed)
      PROVE  TypeOK'
  <2>1. n \in Nat /\ c \in Nat
    BY LoadAssumption
  <2>2. req' \in [Requests -> Request]
    <3> DEFINE p == IF req[r].pc = "running" THEN "finalizing" ELSE "refunding"
               q == [req[r] EXCEPT !.pc = p, !.at = now, !.tokens = n,
                                   !.cost = c, !.committed = committed]
    <3>t. p \in {"finalizing", "refunding"} /\ now \in Nat
      BY DEF TypeOK
    <3> HIDE DEF p
    <3>1. q \in Request
      BY <1>0, <2>1, <3>t DEF Request
    <3>2. req' = [req EXCEPT ![r] = q]
      BY <1>6 DEF CallFinalize, p
    <3> QED
      BY <3>1, <3>2 DEF TypeOK
  <2> QED
    BY <1>6, <2>2 DEF TypeOK, CallFinalize
<1>7. ASSUME NEW r \in Requests, Finalize(r) PROVE TypeOK'
  <2>1. /\ req[r].key \in Keys /\ req[r].vk \in VirtualKey /\ req[r].at \in Nat
        /\ req[r].tokens \in Nat /\ req[r].cost \in Nat
        /\ req[r].committed \in BOOLEAN
    BY <1>0 DEF Request
  <2>2. FinalizeMeters(req[r].key, req[r].vk, req[r].at, req[r].tokens,
                       req[r].cost, req[r].committed)
    BY <1>7 DEF Finalize
  <2>3. req' \in [Requests -> Request]
    BY <1>2, <1>7 DEF TypeOK, Finalize
  <2>4. /\ inflight' \in [Keys -> Nat]
        /\ buckets' \in [Keys -> Bucket] /\ tpmBuckets' \in [Keys -> Bucket]
        /\ spend' \in [Keys -> Ledger] /\ teamSpend' \in [Teams -> Ledger]
        /\ bill' \in [Keys -> [day : Nat, month : Nat]]
        /\ teamBill' \in [Teams -> Nat]
        /\ taken' = taken /\ takenBy' = takenBy /\ leaked' = leaked
    BY <2>1, <2>2, FinalizeMetersType, Zenon
  <2> QED
    BY <1>7, <2>3, <2>4 DEF TypeOK, Finalize
<1>8. ASSUME Adopt PROVE TypeOK'
  BY <1>8 DEF TypeOK, Adopt
<1>9. ASSUME Tick PROVE TypeOK'
  <2>1. now' \in Nat /\ now' \in 0..MaxNow
    BY <1>9, TimeAssumption DEF TypeOK, Tick
  <2>2. bill' \in [Keys -> [day : Nat, month : Nat]]
    BY <1>9 DEF TypeOK, Tick
  <2>3. teamBill' \in [Teams -> Nat]
    BY <1>9 DEF TypeOK, Tick
  <2>4. takenBy' \in [Keys -> [0..MaxNow -> Nat]]
    BY <1>9, <2>1 DEF TypeOK, Tick
  <2> QED
    BY <1>9, <2>1, <2>2, <2>3, <2>4 DEF TypeOK, Tick
<1>10. CASE UNCHANGED vars
  BY <1>10 DEF TypeOK, vars
<1> QED
  BY <1>1, <1>3, <1>4, <1>5, <1>6, <1>7, <1>8, <1>9, <1>10 DEF Next

\* Type correctness of the meters: a slot count, a ledger and a history never
\* leave their range, for any keys, teams, requests and snapshots.
THEOREM TypeCorrect == Spec => []TypeOK
<1>1. Init => TypeOK
  BY InitType
<1>2. TypeOK /\ [Next]_vars => TypeOK'
  BY NextType
<1> QED
  BY <1>1, <1>2, PTL DEF Spec

-----------------------------------------------------------------------------
(***************************************************************************)
(* The concurrency cap.  Admission compares inflight with the cap, so the  *)
(* cap holds when inflight never falls short of the requests that really   *)
(* hold a slot; inflight is exactly those plus the leaked slots when every *)
(* Finalize belongs to an admitted request of a key that always has, or    *)
(* never has, a cap.                                                       *)
(***************************************************************************)

\* A request carries the key some snapshot gave it, and only an admitted
\* request is ever finalized (the proxy's refusal returns at once).
Provenance ==
    \A r \in Requests :
      /\ req[r].pc \in {"idle", "arrived", "beginning", "running", "finalizing"}
      /\ req[r].path = "proxy"
      /\ req[r].pc # "idle" => \E s \in Snapshots : req[r].vk = s[req[r].key]

\* Only a key that some snapshot caps has lost a slot.
LeakInv ==
    \A k \in Keys : leaked[k] > 0 => \E s \in Snapshots : s[k].maxConcurrency > 0

CapInv == TypeOK /\ Provenance /\ LeakInv /\ SlotsAccounted

\* Holder sets are finite, so their cardinality is a number.
LEMMA HoldersFinite ==
    \A k \in Keys : IsFiniteSet(Holders(k)) /\ Cardinality(Holders(k)) \in Nat
<1> TAKE k \in Keys
<1>1. Holders(k) \subseteq Requests
  BY DEF Holders
<1>2. IsFiniteSet(Holders(k))
  BY <1>1, LoadAssumption, FS_Subset
<1> QED
  BY <1>2, FS_CardinalityType

LEMMA HoldersFinitePrime ==
    \A k \in Keys : IsFiniteSet(Holders(k)') /\ Cardinality(Holders(k)') \in Nat
<1> TAKE k \in Keys
<1>1. Holders(k)' \subseteq Requests
  BY DEF Holders
<1>2. IsFiniteSet(Holders(k)')
  BY <1>1, LoadAssumption, FS_Subset
<1> QED
  BY <1>2, FS_CardinalityType

LEMMA CapInit == (Paths = {"proxy"}) /\ Init => CapInv
<1> SUFFICES ASSUME Init PROVE CapInv
  OBVIOUS
<1>1. TypeOK
  BY InitType
<1>2. \A r \in Requests : req[r].pc = "idle" /\ req[r].path = "proxy"
  BY DEF Init, Idle, Arrived
<1>3. Provenance
  BY <1>2 DEF Provenance
<1>4. \A k \in Keys : Holders(k) = {}
  BY <1>2 DEF Holders
<1>5. \A k \in Keys : Cardinality(Holders(k)) = 0
  BY <1>4, FS_EmptySet, Zenon
<1>6. SlotsAccounted /\ LeakInv
  BY <1>5 DEF SlotsAccounted, LeakInv, Init
<1> QED
  BY <1>1, <1>3, <1>6 DEF CapInv

LEMMA ProvenanceNext ==
    ASSUME Paths = {"proxy"}, TypeOK, Provenance, [Next]_vars PROVE Provenance'
<1> USE DEF meters, history
<1>0. \A r \in Requests : req[r] \in Request
  BY DEF TypeOK
<1>i. Idle.pc = "idle" /\ Idle.path = "proxy"
  BY DEF Idle, Arrived
<1>1. ASSUME NEW r \in Requests, NEW k \in Keys, NEW path \in Paths,
             Authenticate(r, k, path)
      PROVE  Provenance'
  <2>1. snap \in Snapshots
    BY DEF TypeOK
  <2> QED
    BY <1>0, <1>1, <2>1 DEF TypeOK, Provenance, Authenticate, Arrived
<1>2. ASSUME NEW r \in Requests, LeaveEarly(r) \/ Finalize(r) PROVE Provenance'
  <2>1. req' = [req EXCEPT ![r] = Idle]
    BY <1>2 DEF LeaveEarly, Finalize
  <2>2. req \in [Requests -> Request]
    BY DEF TypeOK
  <2> QED
    BY <1>i, <2>1, <2>2 DEF Provenance
<1>3. ASSUME NEW r \in Requests, CallBegin(r) PROVE Provenance'
  <2>1. req[r].pc = "arrived"
    BY <1>3 DEF CallBegin
  <2> DEFINE q == [req[r] EXCEPT !.pc = "beginning", !.at = now]
  <2>2. req' = [req EXCEPT ![r] = q]
    BY <1>3 DEF CallBegin
  <2>3. /\ q.pc = "beginning" /\ q.path = req[r].path /\ q.vk = req[r].vk
        /\ q.key = req[r].key
    BY <1>0 DEF Request
  <2> HIDE DEF q
  <2>4. req \in [Requests -> Request]
    BY DEF TypeOK
  <2> QED
    BY <2>1, <2>2, <2>3, <2>4 DEF Provenance
<1>4. ASSUME NEW r \in Requests, Begin(r) PROVE Provenance'
  <2>1. req[r].path = "proxy" /\ req[r].pc = "beginning"
    BY <1>4 DEF Provenance, Begin
  <2> DEFINE q == [req[r] EXCEPT !.pc = "running"]
  <2>2. \/ req' = [req EXCEPT ![r] = q]
        \/ req' = [req EXCEPT ![r] = Idle]
    BY <1>4, <2>1 DEF Begin, Become
  <2>3. /\ q.pc = "running" /\ q.path = "proxy" /\ q.vk = req[r].vk
        /\ q.key = req[r].key
    BY <1>0, <2>1 DEF Request
  <2> HIDE DEF q
  <2>4. CASE req' = [req EXCEPT ![r] = q]
    BY <2>1, <2>3, <2>4 DEF TypeOK, Provenance
  <2>5. CASE req' = [req EXCEPT ![r] = Idle]
    BY <1>i, <2>5 DEF TypeOK, Provenance
  <2> QED
    BY <2>2, <2>4, <2>5
<1>5. ASSUME NEW r \in Requests, NEW n, NEW c, NEW committed,
             CallFinalize(r, n, c, committed)
      PROVE  Provenance'
  <2>1. req[r].pc = "running"
    BY <1>5 DEF CallFinalize, Provenance
  <2> DEFINE q == [req[r] EXCEPT !.pc = "finalizing", !.at = now, !.tokens = n,
                                 !.cost = c, !.committed = committed]
  <2>2. req' = [req EXCEPT ![r] = q]
    BY <1>5, <2>1 DEF CallFinalize
  <2>3. /\ q.pc = "finalizing" /\ q.path = req[r].path /\ q.vk = req[r].vk
        /\ q.key = req[r].key
    BY <1>0 DEF Request
  <2> HIDE DEF q
  <2>4. req \in [Requests -> Request]
    BY DEF TypeOK
  <2> QED
    BY <2>1, <2>2, <2>3, <2>4, SMTT(30) DEF Provenance
<1>6. CASE Adopt \/ Tick \/ UNCHANGED vars
  BY <1>6 DEF Provenance, Adopt, Tick, vars
<1> QED
  BY <1>1, <1>2, <1>3, <1>4, <1>5, <1>6 DEF Next

\* Requests whose key, state and cap do not change hold the same slots.
LEMMA HoldersSame ==
    ASSUME TypeOK, NEW r \in Requests, NEW q \in Request,
           req' = [req EXCEPT ![r] = q],
           (req[r].pc \in {"running", "finalizing"})
             <=> (q.pc \in {"running", "finalizing"}),
           q.pc \in {"running", "finalizing"} => q.key = req[r].key /\ q.vk = req[r].vk
    PROVE  \A k \in Keys : Holders(k)' = Holders(k)
<1> TAKE k \in Keys
<1>1. \A x \in Requests : req'[x] = IF x = r THEN q ELSE req[x]
  BY DEF TypeOK
<1>2. Holders(k)' = {x \in Requests : /\ req'[x].pc \in {"running", "finalizing"}
                                      /\ req'[x].key = k
                                      /\ req'[x].vk.maxConcurrency > 0}
  BY DEF Holders
<1>3. \A x \in Requests : x \in Holders(k)' <=> x \in Holders(k)
  BY <1>1, <1>2 DEF Holders
<1> QED
  BY <1>3 DEF Holders

LEMMA SlotsBegin ==
    ASSUME CapInv, NEW r \in Requests, Begin(r), Provenance
    PROVE  SlotsAccounted' /\ LeakInv'
<1> DEFINE k == req[r].key
           vk == req[r].vk
           s == Stage(k, vk, req[r].at)
           q == [req[r] EXCEPT !.pc = "running"]
           takes == s > 1 /\ vk.maxConcurrency > 0
<1>0. TypeOK /\ req[r] \in Request /\ k \in Keys /\ vk.maxConcurrency \in Nat
  BY DEF CapInv, TypeOK, Request, VirtualKey
<1>s. s \in Int
  BY DEF Stage
<1>1. inflight' = IF takes THEN [inflight EXCEPT ![k] = @ + 1] ELSE inflight
  BY DEF Begin, BeginMeters
<1>2. inflight \in [Keys -> Nat] /\ leaked \in [Keys -> Nat]
  BY <1>0 DEF TypeOK
<1>3. ASSUME NEW j \in Keys
      PROVE  /\ inflight'[j] = inflight[j] + (IF j = k /\ takes THEN 1 ELSE 0)
             /\ IsFiniteSet(Holders(j)) /\ Cardinality(Holders(j)) \in Nat
             /\ inflight[j] = Cardinality(Holders(j)) + leaked[j]
             /\ leaked[j] \in Nat
  <2> HIDE DEF takes
  <2>1. inflight'[j] = inflight[j] + (IF j = k /\ takes THEN 1 ELSE 0)
    BY <1>0, <1>1, <1>2
  <2> QED
    BY <1>2, <2>1, HoldersFinite DEF CapInv, SlotsAccounted
<1>4. req[r].pc = "beginning" /\ req[r].path = "proxy"
  BY DEF Begin, Provenance
<1>5. CASE s = Admitted
  <2>1. req' = [req EXCEPT ![r] = q] /\ leaked' = leaked
    BY <1>5 DEF Begin, Become
  <2>2. q \in Request /\ q.pc = "running" /\ q.key = k /\ q.vk = vk
    BY <1>0 DEF Request
  <2>3. \A x \in Requests : req'[x] = IF x = r THEN q ELSE req[x]
    BY <1>0, <2>1 DEF TypeOK
  <2>4. \A j \in Keys :
          /\ r \notin Holders(j)
          /\ Holders(j)' = IF j = k /\ vk.maxConcurrency > 0
                           THEN Holders(j) \cup {r} ELSE Holders(j)
    <3> TAKE j \in Keys
    <3> HIDE DEF q
    <3>1. r \notin Holders(j)
      BY <1>4 DEF Holders
    <3>2. \A x \in Requests :
            x \in Holders(j)' <=> \/ x # r /\ x \in Holders(j)
                                  \/ x = r /\ j = k /\ vk.maxConcurrency > 0
      BY <2>2, <2>3 DEF Holders
    <3> QED
      BY <3>1, <3>2 DEF Holders
  <2>5. takes <=> vk.maxConcurrency > 0
    BY <1>5 DEF Admitted
  <2>6. ASSUME NEW j \in Keys
        PROVE  inflight'[j] = Cardinality(Holders(j)') + leaked'[j]
    <3>1. CASE j = k /\ vk.maxConcurrency > 0
      <4>1. Cardinality(Holders(j)') = Cardinality(Holders(j)) + 1
        BY <1>3, <2>4, <3>1, FS_AddElement
      <4>2. inflight'[j] = inflight[j] + 1
        BY <1>3, <2>5, <3>1
      <4> QED
        BY <1>3, <2>1, <4>1, <4>2
    <3>2. CASE ~(j = k /\ vk.maxConcurrency > 0)
      <4>1. Holders(j)' = Holders(j)
        BY <2>4, <3>2
      <4>2. inflight'[j] = inflight[j] + 0
        BY <1>3, <2>5, <3>2
      <4> QED
        BY <1>3, <2>1, <4>1, <4>2
    <3> QED
      BY <3>1, <3>2
  <2> QED
    BY <2>1, <2>6 DEF SlotsAccounted, CapInv, LeakInv
<1>6. CASE s # Admitted
  <2>1. /\ req' = [req EXCEPT ![r] = Idle]
        /\ leaked' = IF takes THEN [leaked EXCEPT ![k] = @ + 1] ELSE leaked
    BY <1>4, <1>6 DEF Begin
  <2>2. Idle.pc = "idle"
    BY DEF Idle, Arrived
  <2>3. \A j \in Keys : Holders(j)' = Holders(j)
    BY <1>0, <1>4, <2>1, <2>2, IdleType, HoldersSame
  <2>4. PICK snp \in Snapshots : vk = snp[k]
    BY <1>4 DEF CapInv, Provenance
  <2>c. takes => snp[k].maxConcurrency > 0
    BY <2>4
  <2> HIDE DEF takes
  <2>5. \A j \in Keys : leaked'[j] = leaked[j] + (IF j = k /\ takes THEN 1 ELSE 0)
    BY <1>0, <1>2, <2>1
  <2>6. SlotsAccounted'
    <3>1. ASSUME NEW j \in Keys
          PROVE  inflight'[j] = Cardinality(Holders(j)') + leaked'[j]
      BY <1>3, <2>3, <2>5
    <3> QED
      BY <3>1 DEF SlotsAccounted
  <2>7. LeakInv'
    <3>1. ASSUME NEW j \in Keys, leaked'[j] > 0
          PROVE  \E z \in Snapshots : z[j].maxConcurrency > 0
      <4>1. CASE j = k /\ takes
        BY <2>c, <2>4, <4>1
      <4>2. CASE ~(j = k /\ takes)
        <5>1. leaked[j] > 0
          BY <1>2, <2>5, <3>1, <4>2
        <5> QED
          BY <5>1 DEF CapInv, LeakInv
      <4> QED
        BY <4>1, <4>2
    <3> QED
      BY <3>1 DEF LeakInv
  <2> QED
    BY <2>6, <2>7
<1> QED
  BY <1>5, <1>6

LEMMA SlotsFinalize ==
    ASSUME CapsStable, CapInv, NEW r \in Requests, Finalize(r)
    PROVE  SlotsAccounted' /\ LeakInv'
<1> DEFINE k == req[r].key
           vk == req[r].vk
<1>0. TypeOK /\ req[r] \in Request /\ k \in Keys /\ vk.maxConcurrency \in Nat
  BY DEF CapInv, TypeOK, Request, VirtualKey
<1>1. req' = [req EXCEPT ![r] = Idle] /\ req[r].pc = "finalizing"
  BY DEF Finalize, CapInv, Provenance
<1>2. inflight' = IF inflight[k] > 0 THEN [inflight EXCEPT ![k] = @ - 1] ELSE inflight
  BY DEF Finalize, FinalizeMeters, ReleaseSlot
<1>l. leaked' = leaked /\ leaked \in [Keys -> Nat]
  BY <1>0 DEF Finalize, FinalizeMeters, TypeOK
<1>3. Idle.pc = "idle"
  BY DEF Idle, Arrived
<1>4. \A x \in Requests : req'[x] = IF x = r THEN Idle ELSE req[x]
  BY <1>0, <1>1 DEF TypeOK
<1>5. \A j \in Keys : Holders(j)' = Holders(j) \ {r}
  <2> TAKE j \in Keys
  <2>1. \A x \in Requests : x \in Holders(j)' <=> x # r /\ x \in Holders(j)
    BY <1>3, <1>4 DEF Holders
  <2> QED
    BY <2>1 DEF Holders
<1>6. vk.maxConcurrency > 0 => r \in Holders(k)
  BY <1>1 DEF Holders
<1>7. vk.maxConcurrency = 0 => Holders(k) = {} /\ leaked[k] = 0
  <2> SUFFICES ASSUME vk.maxConcurrency = 0 PROVE Holders(k) = {} /\ leaked[k] = 0
    OBVIOUS
  <2>1. PICK s \in Snapshots : vk = s[k]
    BY <1>1 DEF CapInv, Provenance
  <2>2. \A z \in Snapshots : z[k].maxConcurrency = 0
    BY <1>0, <2>1 DEF CapsStable
  <2>3. \A x \in Requests : x \notin Holders(k)
    <3> TAKE x \in Requests
    <3>1. req[x].pc \in {"running", "finalizing"} /\ req[x].key = k
            => \E z \in Snapshots : req[x].vk = z[k]
      BY DEF CapInv, Provenance
    <3> QED
      BY <2>2, <3>1 DEF Holders
  <2>4. leaked[k] = 0
    BY <1>0, <1>l, <2>2 DEF CapInv, LeakInv
  <2> QED
    BY <2>3, <2>4 DEF Holders
<1>8. ASSUME NEW j \in Keys
      PROVE  inflight'[j] = Cardinality(Holders(j)') + leaked'[j]
  <2>1. /\ Cardinality(Holders(j)) \in Nat /\ IsFiniteSet(Holders(j))
        /\ inflight[j] = Cardinality(Holders(j)) + leaked[j]
        /\ inflight \in [Keys -> Nat] /\ leaked[j] \in Nat
    BY HoldersFinite, <1>0, <1>l DEF CapInv, SlotsAccounted, TypeOK
  <2>2. Cardinality(Holders(j)') = IF r \in Holders(j) THEN Cardinality(Holders(j)) - 1
                                   ELSE Cardinality(Holders(j))
    BY <1>5, <2>1, FS_RemoveElement
  <2>3. CASE j # k
    <3>1. r \notin Holders(j) /\ inflight'[j] = inflight[j]
      BY <1>0, <1>2, <2>1, <2>3 DEF Holders
    <3> QED
      BY <1>l, <2>1, <2>2, <3>1
  <2>4. CASE j = k /\ vk.maxConcurrency > 0
    <3>1. r \in Holders(j) /\ Holders(j) # {}
      BY <1>6, <2>4
    <3>2. Cardinality(Holders(j)) > 0
      BY <2>1, <3>1, FS_EmptySet
    <3>3. inflight'[j] = inflight[j] - 1
      BY <1>0, <1>2, <2>1, <2>4, <3>2
    <3> QED
      BY <1>l, <2>1, <2>2, <3>1, <3>3
  <2>5. CASE j = k /\ vk.maxConcurrency = 0
    <3>1. Cardinality(Holders(j)) = 0 /\ r \notin Holders(j) /\ leaked[j] = 0
      BY <1>7, <2>5, FS_EmptySet
    <3>2. inflight[j] = 0 /\ inflight'[j] = 0
      BY <1>0, <1>2, <2>1, <2>5, <3>1
    <3> QED
      BY <1>l, <2>2, <3>1, <3>2
  <2> QED
    BY <1>0, <2>3, <2>4, <2>5
<1>9. SlotsAccounted'
  BY <1>8 DEF SlotsAccounted
<1> QED
  BY <1>9, <1>l DEF CapInv, LeakInv

LEMMA CapNext ==
    ASSUME Paths = {"proxy"}, CapsStable PROVE CapInv /\ [Next]_vars => CapInv'
<1> SUFFICES ASSUME CapInv, [Next]_vars PROVE CapInv'
  OBVIOUS
<1> USE DEF meters, history
<1>0. TypeOK /\ Provenance /\ SlotsAccounted /\ LeakInv /\ \A r \in Requests : req[r] \in Request
  BY DEF CapInv, TypeOK
<1>1. TypeOK' /\ Provenance'
  BY <1>0, NextType, ProvenanceNext
<1>2. ASSUME inflight' = inflight, leaked' = leaked,
             \A k \in Keys : Holders(k)' = Holders(k)
      PROVE  SlotsAccounted' /\ LeakInv'
  BY <1>0, <1>2 DEF SlotsAccounted, LeakInv
<1>3. ASSUME NEW r \in Requests, NEW q \in Request, req' = [req EXCEPT ![r] = q],
             inflight' = inflight, leaked' = leaked,
             req[r].pc \notin {"running", "finalizing"},
             q.pc \notin {"running", "finalizing"}
      PROVE  SlotsAccounted' /\ LeakInv'
  BY <1>0, <1>2, <1>3, HoldersSame
<1>4. ASSUME NEW r \in Requests, NEW k \in Keys, NEW path \in Paths,
             Authenticate(r, k, path)
      PROVE  SlotsAccounted' /\ LeakInv'
  <2>1. Arrived(k, path, snap[k]) \in Request /\ Arrived(k, path, snap[k]).pc = "arrived"
    BY <1>0, KeyAssumption DEF Arrived, Request, TypeOK
  <2> QED
    BY <1>3, <1>4, <2>1 DEF Authenticate
<1>5. ASSUME NEW r \in Requests, LeaveEarly(r) PROVE SlotsAccounted' /\ LeakInv'
  BY <1>3, <1>5, IdleType DEF LeaveEarly, Idle, Arrived
<1>6. ASSUME NEW r \in Requests, CallBegin(r) PROVE SlotsAccounted' /\ LeakInv'
  <2> DEFINE q == [req[r] EXCEPT !.pc = "beginning", !.at = now]
  <2>1. q \in Request /\ q.pc = "beginning"
    BY <1>0 DEF TypeOK, Request
  <2>2. req' = [req EXCEPT ![r] = q] /\ req[r].pc = "arrived" /\ inflight' = inflight /\ leaked' = leaked
    BY <1>6 DEF CallBegin
  <2> HIDE DEF q
  <2> QED
    BY <1>3, <2>1, <2>2
<1>7. ASSUME NEW r \in Requests, Begin(r) PROVE SlotsAccounted' /\ LeakInv'
  BY <1>0, <1>7, SlotsBegin
<1>8. ASSUME NEW r \in Requests, NEW n \in TokenCounts \cup {0},
             NEW c \in Costs \cup {0}, NEW committed \in BOOLEAN,
             CallFinalize(r, n, c, committed)
      PROVE  SlotsAccounted' /\ LeakInv'
  <2>1. req[r].pc = "running"
    BY <1>0, <1>8 DEF CallFinalize, Provenance
  <2> DEFINE q == [req[r] EXCEPT !.pc = "finalizing", !.at = now, !.tokens = n,
                                 !.cost = c, !.committed = committed]
  <2>2. req' = [req EXCEPT ![r] = q] /\ inflight' = inflight /\ leaked' = leaked
    BY <1>8, <2>1 DEF CallFinalize
  <2>n. n \in Nat /\ c \in Nat /\ now \in Nat
    BY <1>0, LoadAssumption DEF TypeOK
  <2>3. /\ q \in Request /\ q.pc = "finalizing" /\ q.vk = req[r].vk
        /\ q.key = req[r].key
    BY <1>0, <2>n DEF Request
  <2> HIDE DEF q
  <2>4. \A k \in Keys : Holders(k)' = Holders(k)
    BY <1>0, <2>1, <2>2, <2>3, HoldersSame
  <2> QED
    BY <1>2, <2>2, <2>4
<1>9. ASSUME NEW r \in Requests, Finalize(r) PROVE SlotsAccounted' /\ LeakInv'
  BY <1>9, SlotsFinalize
<1>10. ASSUME Adopt \/ Tick \/ UNCHANGED vars PROVE SlotsAccounted' /\ LeakInv'
  <2>1. req' = req /\ inflight' = inflight /\ leaked' = leaked
    BY <1>10 DEF Adopt, Tick, vars
  <2>2. \A k \in Keys : Holders(k)' = Holders(k)
    BY <2>1 DEF Holders
  <2> QED
    BY <1>2, <2>1, <2>2
<1>11. SlotsAccounted' /\ LeakInv'
  BY <1>4, <1>5, <1>6, <1>7, <1>8, <1>9, <1>10 DEF Next
<1> QED
  BY <1>1, <1>11 DEF CapInv

\* With proxy traffic only and caps that are not switched on or off, the slot
\* count is in every state the requests in flight plus the slots that refusals
\* after the first stage of Begin left counted.
THEOREM SlotAccount ==
    ASSUME Paths = {"proxy"}, CapsStable PROVE Spec => []SlotsAccounted
<1>1. Init => CapInv
  BY CapInit
<1>2. CapInv /\ [Next]_vars => CapInv'
  BY CapNext
<1>3. CapInv => SlotsAccounted
  BY DEF CapInv
<1> QED
  BY <1>1, <1>2, <1>3, PTL DEF Spec

\* A request is admitted by its own Begin and by nothing else, and only when
\* no stage refused it.
LEMMA AdmissionIsBegin ==
    ASSUME TypeOK, Next, NEW r \in Requests, Admits(r)
    PROVE  Begin(r) /\ Stage(req[r].key, req[r].vk, req[r].at) = Admitted
<1>0. req \in [Requests -> Request] /\ req[r] \in Request
  BY DEF TypeOK
<1>1. req[r].pc = "beginning" /\ req'[r].pc = "running"
  BY DEF Admits
<1>2. Idle.pc = "idle"
  BY DEF Idle, Arrived
<1>3. ASSUME NEW x \in Requests,
             \/ \E j \in Keys, path \in Paths : Authenticate(x, j, path)
             \/ LeaveEarly(x) \/ CallBegin(x) \/ Finalize(x)
             \/ \E n \in TokenCounts \cup {0}, c \in Costs \cup {0},
                   b \in BOOLEAN : CallFinalize(x, n, c, b)
      PROVE  x # r /\ req'[r] = req[r]
  BY <1>0, <1>1, <1>3 DEF Authenticate, LeaveEarly, CallBegin, Finalize, CallFinalize
<1>4. ASSUME NEW x \in Requests, Begin(x), x # r PROVE req'[r] = req[r]
  BY <1>0, <1>4 DEF Begin, Become
<1>5. ASSUME Adopt \/ Tick PROVE req' = req
  BY <1>5 DEF Adopt, Tick
<1>6. Begin(r)
  BY <1>1, <1>3, <1>4, <1>5 DEF Next
<1>7. req' # [req EXCEPT ![r] = Idle]
  BY <1>0, <1>1, <1>2
<1>8. req' # [req EXCEPT ![r].pc = "refused"]
  BY <1>0, <1>1 DEF Request
<1> QED
  BY <1>6, <1>7, <1>8 DEF Begin, Become

\* An admission leaves the holders and the leaked slots within the cap.
LEMMA AdmissionFits ==
    ASSUME Paths = {"proxy"}, CapsStable, CapInv, Next, NEW r \in Requests,
           NEW k \in Keys, Admits(r), req[r].key = k, req[r].vk.maxConcurrency > 0
    PROVE  /\ Cardinality(Holders(k)') \in Nat /\ leaked'[k] \in Nat
           /\ Cardinality(Holders(k)') + leaked'[k] <= req[r].vk.maxConcurrency
<1> DEFINE vk == req[r].vk
<1>0. TypeOK /\ req[r] \in Request /\ k \in Keys /\ vk.maxConcurrency \in Nat
  BY DEF CapInv, TypeOK, Request, VirtualKey
<1>1. CapInv'
  BY CapNext
<1>2. Begin(r) /\ Stage(k, vk, req[r].at) = Admitted
  BY <1>0, AdmissionIsBegin
<1>3. ~ConcurrencyLimited(k, vk)
  BY <1>2 DEF Stage, Admitted
<1>4. inflight[k] < vk.maxConcurrency /\ inflight \in [Keys -> Nat]
  BY <1>0, <1>3 DEF ConcurrencyLimited, TypeOK
<1>5. inflight'[k] = inflight[k] + 1
  BY <1>0, <1>2, <1>4 DEF Begin, BeginMeters, Admitted
<1>6. inflight'[k] = Cardinality(Holders(k)') + leaked'[k] /\ leaked'[k] \in Nat
  BY <1>0, <1>1 DEF CapInv, SlotsAccounted, TypeOK
<1>7. Cardinality(Holders(k)') \in Nat
  BY <1>0, HoldersFinitePrime
<1> QED
  BY <1>0, <1>4, <1>5, <1>6, <1>7

\* With proxy traffic only and caps that are not switched on or off, Begin
\* never admits a request beyond the cap it was authenticated under.
THEOREM ConcurrencyCap ==
    ASSUME Paths = {"proxy"}, CapsStable PROVE Spec => CapHeld
<1> DEFINE A == \A r \in Requests, k \in Keys :
                  Admits(r) /\ req[r].key = k /\ req[r].vk.maxConcurrency > 0
                    => Cardinality(Holders(k)') <= req[r].vk.maxConcurrency
<1>1. Init => CapInv
  BY CapInit
<1>2. CapInv /\ [Next]_vars => CapInv'
  BY CapNext
<1>3. CapInv /\ [Next]_vars => [A]_vars
  <2> SUFFICES ASSUME CapInv, Next, NEW r \in Requests, NEW k \in Keys,
                      Admits(r), req[r].key = k, req[r].vk.maxConcurrency > 0
               PROVE  Cardinality(Holders(k)') <= req[r].vk.maxConcurrency
    BY DEF A
  <2>1. req[r].vk.maxConcurrency \in Nat
    BY DEF CapInv, TypeOK, Request, VirtualKey
  <2> QED
    BY <2>1, AdmissionFits
<1> QED
  BY <1>1, <1>2, <1>3, PTL DEF Spec, CapHeld

\* What the leak at stage 1 of Begin costs: a key's lost slots never come back,
\* and every later admission has to fit beside them, so a key that has lost as
\* many slots as its cap is shut out until the process restarts.
LeakIsForGood ==
    [][/\ \A k \in Keys : leaked[k] <= leaked'[k]
       /\ \A r \in Requests, k \in Keys :
            Admits(r) /\ req[r].key = k /\ req[r].vk.maxConcurrency > 0
              => Cardinality(Holders(k)') + leaked'[k]
                   <= req[r].vk.maxConcurrency]_vars

\* With proxy traffic only and caps that are not switched on or off, the leak of
\* Begin is permanent and shrinks the key's capacity by what was lost.
THEOREM LostSlotsStayLost ==
    ASSUME Paths = {"proxy"}, CapsStable PROVE Spec => LeakIsForGood
<1> DEFINE A == /\ \A k \in Keys : leaked[k] <= leaked'[k]
                /\ \A r \in Requests, k \in Keys :
                     Admits(r) /\ req[r].key = k /\ req[r].vk.maxConcurrency > 0
                       => Cardinality(Holders(k)') + leaked'[k]
                            <= req[r].vk.maxConcurrency
<1>1. Init => CapInv
  BY CapInit
<1>2. CapInv /\ [Next]_vars => CapInv'
  BY CapNext
<1>3. CapInv /\ [Next]_vars => [A]_vars
  <2> SUFFICES ASSUME CapInv, Next PROVE A
    OBVIOUS
  <2>0. leaked \in [Keys -> Nat]
    BY DEF CapInv, TypeOK
  <2>1. \A k \in Keys : leaked[k] <= leaked'[k]
    <3>1. ASSUME NEW r \in Requests, Begin(r)
          PROVE  \/ leaked' = leaked
                 \/ leaked' = [leaked EXCEPT ![req[r].key] = @ + 1]
      BY <3>1 DEF Begin
    <3>2. ASSUME NEW r \in Requests,
                 \/ \E k \in Keys, path \in Paths : Authenticate(r, k, path)
                 \/ LeaveEarly(r) \/ CallBegin(r) \/ Finalize(r)
                 \/ \E n \in TokenCounts \cup {0}, c \in Costs \cup {0},
                       b \in BOOLEAN : CallFinalize(r, n, c, b)
          PROVE  leaked' = leaked
      BY <3>2 DEF Authenticate, LeaveEarly, CallBegin, Finalize, FinalizeMeters,
                  CallFinalize, history
    <3>3. ASSUME Adopt \/ Tick PROVE leaked' = leaked
      BY <3>3 DEF Adopt, Tick, history
    <3>4. \/ leaked' = leaked
          \/ \E j : leaked' = [leaked EXCEPT ![j] = @ + 1]
      BY <3>1, <3>2, <3>3 DEF Next
    <3> QED
      BY <2>0, <3>4
  <2> QED
    BY <2>1, AdmissionFits
<1> QED
  BY <1>1, <1>2, <1>3, PTL DEF Spec, LeakIsForGood

-----------------------------------------------------------------------------
(***************************************************************************)
(* The rate.  RateBound alone is not inductive: what a key may still take  *)
(* depends on its bucket.  LevelInv adds to the tokens taken since t the   *)
(* level the bucket has at any instant a a caller may still come with; the *)
(* sum stays within one full bucket plus the refill from t to a, with the  *)
(* slack of the longest wait for the lock.                                 *)
(***************************************************************************)

\* The tokens of a bucket, as a caller finds them at instant a.
Level(b, a) == Refill(b, a).tokens

\* A caller that waits for the lock read the clock at most MaxLockWait ago.
LockInv ==
    /\ now <= MaxNow
    /\ \A r \in Requests :
         AwaitsLock(r) => req[r].at <= now /\ now - req[r].at <= MaxLockWait

\* A key without a bucket has taken nothing.
FreshInv ==
    \A k \in Keys :
      \/ buckets[k].rpm > 0
      \/ /\ buckets[k] = NoBucket /\ taken[k] = 0
         /\ \A t \in 0..MaxNow : takenBy[k][t] = 0

\* D tokens taken since t, with the level of b at a, are within one full
\* bucket and the refill from t to a.
Paid(D, b, t, a) ==
    D * Minute + Level(b, a) <= b.rpm * (Minute + MaxLockWait + a - t)

LevelBound(k, t, a) == Paid(taken[k] - takenBy[k][t], buckets[k], t, a)

LevelInv ==
    \A k \in Keys : \A t \in 0..now : \A a \in Int :
      a >= t - MaxLockWait => LevelBound(k, t, a)

RateInv == TypeOK /\ LockInv /\ FreshInv /\ LevelInv /\ RateBound

\* A bucket is never above its capacity, and never above its tokens plus the
\* refill; it has exactly the one or the other.
LEMMA LevelIs ==
    ASSUME NEW b \in Bucket, NEW a \in Int
    PROVE  /\ Level(b, a) \in Int
           /\ Level(b, a) <= b.rpm * Minute
           /\ Level(b, a) <= b.tokens + (a - b.last) * b.rpm
<1>1. b.tokens \in Int /\ b.last \in Nat /\ b.rpm \in Nat /\ Minute \in Nat
  BY TimeAssumption DEF Bucket
<1> DEFINE full == b.tokens + (a - b.last) * b.rpm
           cap == b.rpm * Minute
<1>2. full \in Int /\ cap \in Int
  BY <1>1
<1>3. Level(b, a) = IF full > cap THEN cap ELSE full
  BY DEF Level, Refill, Bucket
<1> HIDE DEF full, cap
<1>4. Level(b, a) \in Int /\ Level(b, a) <= cap /\ Level(b, a) <= full
  BY <1>2, <1>3
<1> QED
  BY <1>4 DEF full, cap

\* The charge of one call, in integers: n tokens taken from level T at a0
\* leave the account of any other instant a balanced.
LEMMA AccountStep ==
    ASSUME NEW R \in Nat, NEW M \in Nat, NEW W \in Nat, NEW D \in Int,
           NEW T \in Int, NEW n \in Nat, NEW a \in Int, NEW a0 \in Int,
           NEW t \in Int, D * M + T <= R * (M + W + a0 - t)
    PROVE  (D + n) * M + ((T - n * M) + (a - a0) * R) <= R * (M + W + a - t)
OBVIOUS

LEMMA MulMono ==
    ASSUME NEW x \in Nat, NEW y \in Int, NEW z \in Int, y <= z
    PROVE  x * y <= x * z /\ x * y \in Int /\ x * z \in Int
OBVIOUS

\* One call of Begin on the bucket b of a key with limit > 0, at instant a0:
\* whatever was taken since t, D, the account that held for b at a0 holds for
\* the drained bucket at every instant a.
LEMMA DrainedLevel ==
    ASSUME NEW b \in Bucket, NEW a0 \in Nat, NEW n \in Nat, NEW D \in Int,
           NEW t \in Int, NEW a \in Int, Paid(D, b, t, a0)
    PROVE  /\ Drain(Refill(b, a0), n).rpm = b.rpm
           /\ Drain(Refill(b, a0), n).tokens = Level(b, a0) - n * Minute
           /\ Paid(D + n, Drain(Refill(b, a0), n), t, a)
<1> DEFINE c == Drain(Refill(b, a0), n)
<1>0. Minute \in Nat /\ MaxLockWait \in Nat /\ b.rpm \in Nat
  BY TimeAssumption DEF Bucket
<1>1. Level(b, a0) \in Int
  BY LevelIs
<1>2. c.rpm = b.rpm /\ c.last = a0 /\ c.tokens = Level(b, a0) - n * Minute
  BY DEF Drain, Refill, Level, Bucket
<1>3. c \in [tokens : Int, last : Nat, rpm : Nat]
  <2>1. Refill(b, a0) \in [tokens : Int, last : Nat, rpm : Nat]
    <3>1. b.tokens + (a0 - b.last) * b.rpm \in Int /\ b.rpm * Minute \in Int
      BY <1>0 DEF Bucket
    <3> QED
      BY <3>1, <1>0 DEF Refill, Bucket
  <2>2. n * Minute \in Int
    BY <1>0
  <2> QED
    BY <2>1, <2>2 DEF Drain
<1> HIDE DEF c
<1>4. Level(c, a) \in Int /\ Level(c, a) <= c.tokens + (a - c.last) * c.rpm
  BY <1>3, LevelIs DEF Bucket
<1>5. (D + n) * Minute + ((Level(b, a0) - n * Minute) + (a - a0) * b.rpm)
        <= b.rpm * (Minute + MaxLockWait + a - t)
  BY <1>0, <1>1, AccountStep DEF Paid
<1>6. Level(c, a) <= (Level(b, a0) - n * Minute) + (a - a0) * b.rpm
  BY <1>2, <1>4
<1>7. /\ (D + n) * Minute \in Int /\ b.rpm * (Minute + MaxLockWait + a - t) \in Int
      /\ (Level(b, a0) - n * Minute) + (a - a0) * b.rpm \in Int
  BY <1>0, <1>1
<1>8. (D + n) * Minute + Level(c, a) <= b.rpm * (Minute + MaxLockWait + a - t)
  BY <1>4, <1>5, <1>6, <1>7
<1> QED
  BY <1>2, <1>8 DEF c, Paid

\* A bucket of capacity R at any level, nothing taken: the account holds.
LEMMA UntouchedLevel ==
    ASSUME NEW b \in Bucket, NEW t \in Int, NEW a \in Int, a >= t - MaxLockWait
    PROVE  Paid(0, b, t, a)
<1>1. b.rpm \in Nat /\ Minute \in Nat /\ MaxLockWait \in Nat
  BY TimeAssumption DEF Bucket
<1>2. Level(b, a) \in Int /\ Level(b, a) <= b.rpm * Minute
  BY LevelIs
<1>3. Minute <= Minute + MaxLockWait + a - t
  BY <1>1
<1>4. /\ b.rpm * Minute <= b.rpm * (Minute + MaxLockWait + a - t)
      /\ b.rpm * Minute \in Int /\ b.rpm * (Minute + MaxLockWait + a - t) \in Int
  BY <1>1, <1>3, MulMono
<1> QED
  BY <1>1, <1>2, <1>4 DEF Paid

LEMMA RateInit == Init => RateInv
<1> SUFFICES ASSUME Init PROVE RateInv
  OBVIOUS
<1>1. TypeOK
  BY InitType
<1>2. LockInv
  BY TimeAssumption DEF LockInv, Init, AwaitsLock, Idle, Arrived
<1>3. /\ \A k \in Keys : buckets[k] = NoBucket /\ taken[k] = 0
      /\ \A k \in Keys : \A t \in 0..MaxNow : takenBy[k][t] = 0
      /\ now = 0 /\ 0 \in 0..MaxNow
  BY TimeAssumption DEF Init
<1>4. FreshInv
  BY <1>3 DEF FreshInv
<1>5. NoBucket \in Bucket /\ NoBucket.rpm = 0
  BY DEF NoBucket, Bucket
<1>6. LevelInv
  <2> SUFFICES ASSUME NEW k \in Keys, NEW t \in 0..now, NEW a \in Int,
                      a >= t - MaxLockWait
               PROVE  LevelBound(k, t, a)
    BY DEF LevelInv
  <2>1. t \in Int /\ taken[k] - takenBy[k][t] = 0
    BY <1>3
  <2> QED
    BY <1>3, <1>5, <2>1, UntouchedLevel DEF LevelBound
<1>7. RateBound
  <2> SUFFICES ASSUME NEW k \in Keys, NEW t \in 0..now
               PROVE  (taken[k] - takenBy[k][t]) * Minute
                        <= buckets[k].rpm * (Minute + MaxLockWait + now - t)
    BY DEF RateBound
  <2>1. taken[k] = 0 /\ takenBy[k][t] = 0 /\ buckets[k].rpm = 0
    BY <1>3, <1>5
  <2> QED
    BY <1>3, <2>1, TimeAssumption
<1> QED
  BY <1>1, <1>2, <1>4, <1>6, <1>7 DEF RateInv

\* The wait for the lock stays bounded: a call reads the clock when it starts,
\* and the clock does not advance past the longest wait.
LEMMA LockNext == ASSUME TypeOK, LockInv, [Next]_vars PROVE LockInv'
<1> USE DEF meters, history
<1>0. req \in [Requests -> Request] /\ now \in Nat /\ MaxLockWait \in Nat
  BY TimeAssumption DEF TypeOK
<1>i. Idle.pc = "idle"
  BY DEF Idle, Arrived
<1>1. ASSUME NEW r \in Requests, NEW q, req' = [req EXCEPT ![r] = q], now' = now,
             \/ q.pc \notin {"beginning", "finalizing", "refunding"}
             \/ q.at = now
      PROVE  LockInv'
  <2>1. \A x \in Requests : req'[x] = IF x = r THEN q ELSE req[x]
    BY <1>0, <1>1
  <2>2. ASSUME NEW x \in Requests, AwaitsLock(x)'
        PROVE  req'[x].at <= now' /\ now' - req'[x].at <= MaxLockWait
    <3>1. CASE x = r
      BY <1>0, <1>1, <2>1, <2>2, <3>1 DEF AwaitsLock
    <3>2. CASE x # r
      <4>1. AwaitsLock(x) /\ req'[x] = req[x]
        BY <2>1, <2>2, <3>2 DEF AwaitsLock
      <4> QED
        BY <1>1, <4>1 DEF LockInv
    <3> QED
      BY <3>1, <3>2
  <2> QED
    BY <1>1, <2>2 DEF LockInv
<1>2. ASSUME NEW r \in Requests, NEW k, NEW path, Authenticate(r, k, path)
      PROVE  LockInv'
  BY <1>1, <1>2 DEF Authenticate, Arrived
<1>3. ASSUME NEW r \in Requests, LeaveEarly(r) \/ Finalize(r) PROVE LockInv'
  BY <1>1, <1>3, <1>i DEF LeaveEarly, Finalize
<1>4. ASSUME NEW r \in Requests, CallBegin(r) PROVE LockInv'
  <2> DEFINE q == [req[r] EXCEPT !.pc = "beginning", !.at = now]
  <2>1. req' = [req EXCEPT ![r] = q] /\ now' = now
    BY <1>4 DEF CallBegin
  <2>2. q.at = now
    BY <1>0 DEF Request
  <2> HIDE DEF q
  <2> QED
    BY <1>1, <2>1, <2>2
<1>5. ASSUME NEW r \in Requests, Begin(r) PROVE LockInv'
  <2> DEFINE p == [req[r] EXCEPT !.pc = "running"]
             q == [req[r] EXCEPT !.pc = "refused"]
  <2>1. /\ now' = now
        /\ \/ req' = [req EXCEPT ![r] = p]
           \/ req' = [req EXCEPT ![r] = q]
           \/ req' = [req EXCEPT ![r] = Idle]
    BY <1>5 DEF Begin, Become
  <2>2. p.pc = "running" /\ q.pc = "refused"
    BY <1>0 DEF Request
  <2> HIDE DEF p, q
  <2> QED
    BY <1>1, <1>i, <2>1, <2>2
<1>6. ASSUME NEW r \in Requests, NEW n, NEW c, NEW committed,
             CallFinalize(r, n, c, committed)
      PROVE  LockInv'
  <2> DEFINE p == IF req[r].pc = "running" THEN "finalizing" ELSE "refunding"
             q == [req[r] EXCEPT !.pc = p, !.at = now, !.tokens = n,
                                 !.cost = c, !.committed = committed]
  <2>1. req' = [req EXCEPT ![r] = q] /\ now' = now
    BY <1>6 DEF CallFinalize
  <2>2. q.at = now
    BY <1>0 DEF Request
  <2> HIDE DEF q
  <2> QED
    BY <1>1, <2>1, <2>2
<1>7. ASSUME Tick PROVE LockInv'
  <2>1. req' = req /\ now' = now + 1 /\ now < MaxNow
        /\ \A r \in Requests : AwaitsLock(r) => now - req[r].at < MaxLockWait
    BY <1>7 DEF Tick
  <2>2. \A r \in Requests : AwaitsLock(r)' = AwaitsLock(r)
    BY <2>1 DEF AwaitsLock
  <2>3. \A r \in Requests : req[r].at \in Nat
    BY <1>0 DEF Request
  <2>4. MaxNow \in Nat
    BY TimeAssumption
  <2>5. now' <= MaxNow
    BY <1>0, <2>1, <2>4
  <2>6. ASSUME NEW r \in Requests, AwaitsLock(r)'
        PROVE  req'[r].at <= now' /\ now' - req'[r].at <= MaxLockWait
    <3>1. AwaitsLock(r) /\ req[r].at <= now /\ now - req[r].at < MaxLockWait
      BY <2>1, <2>2, <2>6 DEF LockInv
    <3> QED
      BY <1>0, <2>1, <2>3, <3>1
  <2> QED
    BY <2>5, <2>6 DEF LockInv
<1>8. CASE Adopt \/ UNCHANGED vars
  BY <1>8 DEF LockInv, AwaitsLock, Adopt, vars
<1> QED
  BY <1>2, <1>3, <1>4, <1>5, <1>6, <1>7, <1>8 DEF Next

\* A step that leaves the clock, the RPM buckets and what was taken alone.
LEMMA RateIdle ==
    ASSUME FreshInv, LevelInv, RateBound,
           UNCHANGED <<now, buckets, taken, takenBy>>
    PROVE  FreshInv' /\ LevelInv' /\ RateBound'
<1>1. FreshInv'
  BY DEF FreshInv
<1>2. \A k, t, a : LevelBound(k, t, a)' <=> LevelBound(k, t, a)
  BY DEF LevelBound, Paid, Level
<1>3. LevelInv'
  BY <1>2 DEF LevelInv
<1> QED
  BY <1>1, <1>3 DEF RateBound

\* Begin, on the bucket of its key.
LEMMA RateBegin ==
    ASSUME RateInv, NEW r \in Requests, Begin(r)
    PROVE  FreshInv' /\ LevelInv' /\ RateBound'
<1> DEFINE k == req[r].key
           vk == req[r].vk
           a0 == req[r].at
           s == Stage(k, vk, a0)
           n == IF s > 2 THEN 1 ELSE 0
           b == BucketFor(buckets[k], vk.rpm, a0)
           c == Drain(Refill(b, a0), n)
<1>0. /\ TypeOK /\ LockInv /\ FreshInv /\ LevelInv /\ RateBound
      /\ req[r] \in Request /\ k \in Keys /\ vk \in VirtualKey /\ a0 \in Nat
      /\ vk.rpm \in Nat /\ now \in Nat /\ MaxLockWait \in Nat /\ MaxNow \in Nat
      /\ Minute \in Nat
  BY TimeAssumption DEF RateInv, TypeOK, Request, VirtualKey
<1>t. /\ buckets \in [Keys -> Bucket] /\ taken \in [Keys -> Nat]
      /\ takenBy \in [Keys -> [0..MaxNow -> Nat]]
  BY <1>0 DEF TypeOK
<1>s. s \in Int /\ n \in Nat /\ (s > 2 => n = 1) /\ (~(s > 2) => n = 0)
  BY DEF Stage
<1>a. a0 <= now /\ now - a0 <= MaxLockWait /\ now <= MaxNow
  BY <1>0 DEF LockInv, AwaitsLock, Begin
<1>u. now' = now /\ takenBy' = takenBy
  BY DEF Begin
<1>m. /\ buckets' = IF s > 1 /\ vk.rpm > 0 THEN [buckets EXCEPT ![k] = c] ELSE buckets
      /\ taken' = IF s > 2 /\ vk.rpm > 0 THEN [taken EXCEPT ![k] = @ + 1] ELSE taken
  BY DEF Begin, BeginMeters, RpmBucket
<1>h. s > 2 /\ vk.rpm > 0 => HasToken(Refill(b, a0))
  BY <1>0 DEF Stage, RpmLimited, RpmBucket
<1>b. /\ b \in Bucket
      /\ buckets[k].rpm > 0 => b = buckets[k]
      /\ ~(buckets[k].rpm > 0) => b.rpm = vk.rpm
  <2>1. buckets[k] \in Bucket /\ NoBucket.rpm = 0
    BY <1>0, <1>t DEF NoBucket
  <2>2. vk.rpm * Minute \in Int
    BY <1>0
  <2>3. NewBucket(vk.rpm, a0) \in Bucket /\ NewBucket(vk.rpm, a0).rpm = vk.rpm
    BY <1>0, <2>2 DEF NewBucket, Bucket
  <2>4. ~(buckets[k].rpm > 0) => buckets[k] = NoBucket
    BY <1>0 DEF FreshInv
  <2> QED
    BY <2>1, <2>3, <2>4 DEF BucketFor
<1> HIDE DEF s, n, b, c
<1>1. CASE ~(s > 1 /\ vk.rpm > 0)
  <2>1. buckets' = buckets /\ taken' = taken
    BY <1>s, <1>1, <1>m
  <2> QED
    BY <1>0, <1>u, <2>1, RateIdle
<1>2. CASE s > 1 /\ vk.rpm > 0
  <2>1. /\ buckets' = [buckets EXCEPT ![k] = c]
        /\ \/ n = 0 /\ taken' = taken
           \/ n = 1 /\ taken' = [taken EXCEPT ![k] = @ + 1]
    BY <1>2, <1>m, <1>s
  <2>2. \A j \in Keys : j # k => buckets'[j] = buckets[j] /\ taken'[j] = taken[j]
    BY <1>t, <2>1
  <2>3. buckets'[k] = c /\ taken'[k] = taken[k] + n
    BY <1>0, <1>t, <2>1
  <2>r. b.rpm > 0 /\ b.rpm \in Nat
    BY <1>b, <1>2 DEF Bucket
  \* The account of the bucket Begin works on, before the call.
  <2>4. ASSUME NEW t \in 0..now
        PROVE  /\ taken[k] - takenBy[k][t] \in Int
               /\ Paid(taken[k] - takenBy[k][t], b, t, a0)
    <3>1. t \in Int /\ t \in 0..MaxNow /\ a0 \in Int /\ a0 >= t - MaxLockWait
      BY <1>0, <1>a
    <3>t. k \in Keys /\ t \in 0..MaxNow
      BY <1>0, <3>1
    <3>n. taken[k] \in Nat /\ takenBy[k][t] \in Nat
      BY <1>t, <3>t
    <3>2. taken[k] - takenBy[k][t] \in Int
      BY <3>n
    <3>3. CASE buckets[k].rpm > 0
      <4>1. LevelBound(k, t, a0)
        BY <1>0, <3>1 DEF LevelInv
      <4> QED
        BY <1>b, <3>2, <3>3, <4>1 DEF LevelBound
    <3>4. CASE ~(buckets[k].rpm > 0)
      <4>1. taken[k] - takenBy[k][t] = 0
        BY <1>0, <3>1, <3>4 DEF FreshInv
      <4>2. Paid(0, b, t, a0)
        BY <1>b, <3>1, UntouchedLevel
      <4> QED
        BY <3>2, <4>1, <4>2
    <3> QED
      BY <3>3, <3>4
  \* What DrainedLevel says of it after the call.
  <2>5. ASSUME NEW t \in 0..now, NEW a \in Int
        PROVE  /\ c.rpm = b.rpm /\ c.tokens = Level(b, a0) - n * Minute
               /\ Paid(taken[k] - takenBy[k][t] + n, c, t, a)
    <3>1. t \in Int /\ a0 \in Nat /\ n \in Nat /\ b \in Bucket
      BY <1>0, <1>b, <1>s
    <3> QED
      BY <2>4, <3>1, DrainedLevel DEF c
  <2>6. c.rpm = b.rpm /\ c.tokens = Level(b, a0) - n * Minute
    <3>1. now \in 0..now /\ a0 \in Int
      BY <1>0
    <3> QED
      BY <2>5, <3>1
  <2>7. FreshInv'
    <3> SUFFICES ASSUME NEW j \in Keys
                 PROVE  \/ buckets'[j].rpm > 0
                        \/ /\ buckets'[j] = NoBucket /\ taken'[j] = 0
                           /\ \A t \in 0..MaxNow : takenBy'[j][t] = 0
      BY DEF FreshInv
    <3>1. CASE j = k
      BY <2>3, <2>6, <2>r, <3>1
    <3>2. CASE j # k
      BY <1>0, <1>u, <2>2, <3>2 DEF FreshInv
    <3> QED
      BY <3>1, <3>2
  <2>8. LevelInv'
    <3> SUFFICES ASSUME NEW j \in Keys, NEW t \in 0..now', NEW a \in Int,
                        a >= t - MaxLockWait
                 PROVE  LevelBound(j, t, a)'
      BY DEF LevelInv
    <3>1. t \in 0..now /\ t \in 0..MaxNow
      BY <1>0, <1>a, <1>u
    <3>2. CASE j = k
      <4>1. takenBy[k][t] \in Nat /\ taken[k] \in Nat
        BY <1>0, <1>t, <3>1
      <4>2. taken'[k] - takenBy'[k][t] = taken[k] - takenBy[k][t] + n
        BY <1>s, <1>u, <2>3, <4>1
      <4> QED
        BY <2>3, <2>5, <3>1, <3>2, <4>2 DEF LevelBound, Paid, Level
    <3>3. CASE j # k
      <4>1. LevelBound(j, t, a)
        BY <1>0, <3>1 DEF LevelInv
      <4> QED
        BY <1>u, <2>2, <3>3, <4>1 DEF LevelBound, Paid, Level
    <3> QED
      BY <3>2, <3>3
  <2>9. RateBound'
    <3> SUFFICES ASSUME NEW j \in Keys, NEW t \in 0..now'
                 PROVE  (taken'[j] - takenBy'[j][t]) * Minute
                          <= buckets'[j].rpm * (Minute + MaxLockWait + now' - t)
      BY DEF RateBound
    <3>1. t \in 0..now /\ t \in 0..MaxNow
      BY <1>0, <1>a, <1>u
    <3>2. CASE j # k
      BY <1>0, <1>u, <2>2, <3>1, <3>2 DEF RateBound
    <3>3. CASE j = k /\ n = 0
      <4>1. takenBy[k][t] \in Nat /\ taken[k] \in Nat
        BY <1>0, <1>t, <3>1
      <4>2. taken'[k] - takenBy'[k][t] = taken[k] - takenBy[k][t]
        BY <1>u, <2>3, <3>3, <4>1
      <4>3. (taken[k] - takenBy[k][t]) * Minute
              <= b.rpm * (Minute + MaxLockWait + now - t)
        <5>1. CASE buckets[k].rpm > 0
          BY <1>0, <1>b, <3>1, <5>1 DEF RateBound
        <5>2. CASE ~(buckets[k].rpm > 0)
          <6>1. taken[k] - takenBy[k][t] = 0
            BY <1>0, <3>1, <5>2 DEF FreshInv
          <6>2. Minute + MaxLockWait + now - t \in Nat /\ 0 * Minute = 0
            BY <1>0, <3>1
          <6>3. b.rpm * (Minute + MaxLockWait + now - t) >= 0
            BY <2>r, <6>2
          <6> QED
            BY <6>1, <6>2, <6>3
        <5> QED
          BY <5>1, <5>2
      <4> QED
        BY <1>u, <2>3, <2>6, <3>3, <4>2, <4>3
    <3>4. CASE j = k /\ n # 0
      <4>1. takenBy[k][t] \in Nat /\ taken[k] \in Nat
        BY <1>0, <1>t, <3>1
      <4>2. taken'[k] - takenBy'[k][t] = taken[k] - takenBy[k][t] + n
        BY <1>s, <1>u, <2>3, <4>1
      <4>d. PICK D \in Int : D = taken[k] - takenBy[k][t] + n
        BY <1>s, <4>1
      <4>3. n = 1 /\ Level(b, a0) >= Minute
        BY <1>2, <1>h, <1>s, <3>4 DEF HasToken, Level
      <4>4. Level(b, a0) \in Int /\ a0 \in Int /\ t \in Int
        BY <1>0, <1>b, LevelIs
      <4>5. (taken[k] - takenBy[k][t]) * Minute + Level(b, a0)
              <= b.rpm * (Minute + MaxLockWait + a0 - t)
        BY <2>4, <3>1 DEF Paid
      <4>6. (taken[k] - takenBy[k][t]) * Minute + Minute = D * Minute
            /\ D * Minute \in Int /\ (taken[k] - takenBy[k][t]) * Minute \in Int
        BY <1>0, <4>1, <4>3, <4>d
      <4>7. /\ b.rpm * (Minute + MaxLockWait + a0 - t)
                 <= b.rpm * (Minute + MaxLockWait + now - t)
            /\ b.rpm * (Minute + MaxLockWait + a0 - t) \in Int
            /\ b.rpm * (Minute + MaxLockWait + now - t) \in Int
        <5>1. /\ Minute + MaxLockWait + a0 - t \in Int
              /\ Minute + MaxLockWait + now - t \in Int
              /\ Minute + MaxLockWait + a0 - t <= Minute + MaxLockWait + now - t
          BY <1>0, <1>a, <4>4
        <5> QED
          BY <2>r, <5>1, MulMono
      <4>8. D * Minute <= b.rpm * (Minute + MaxLockWait + now - t)
        BY <1>0, <4>3, <4>4, <4>5, <4>6, <4>7
      <4> QED
        BY <1>u, <2>3, <2>6, <3>4, <4>2, <4>8, <4>d
    <3> QED
      BY <3>2, <3>3, <3>4
  <2> QED
    BY <2>7, <2>8, <2>9
<1> QED
  BY <1>1, <1>2

\* The clock.  A new window opens with nothing taken in it.
LEMMA RateTick == ASSUME RateInv, Tick PROVE FreshInv' /\ LevelInv' /\ RateBound'
<1>0. /\ TypeOK /\ LockInv /\ FreshInv /\ LevelInv /\ RateBound
      /\ now \in Nat /\ MaxLockWait \in Nat /\ MaxNow \in Nat /\ Minute \in Nat
  BY TimeAssumption DEF RateInv, TypeOK
<1>t. /\ buckets \in [Keys -> Bucket] /\ taken \in [Keys -> Nat]
      /\ takenBy \in [Keys -> [0..MaxNow -> Nat]]
  BY <1>0 DEF TypeOK
<1>1. /\ now' = now + 1 /\ now < MaxNow /\ now' \in 0..MaxNow
      /\ buckets' = buckets /\ taken' = taken
      /\ takenBy' = [k \in Keys |-> [takenBy[k] EXCEPT ![now'] = taken[k]]]
  BY <1>0 DEF Tick, meters
<1>2. \A k \in Keys : \A t \in 0..MaxNow :
        takenBy'[k][t] = IF t = now' THEN taken[k] ELSE takenBy[k][t]
  BY <1>1, <1>t
<1>3. FreshInv'
  BY <1>0, <1>1, <1>2 DEF FreshInv
<1>4. \A t \in 0..now' : t \in Int /\ t \in 0..MaxNow /\ (t # now' => t \in 0..now)
  BY <1>0, <1>1
<1>5. \A k \in Keys : taken[k] - taken[k] = 0
  BY <1>t
<1>6. LevelInv'
  <2> SUFFICES ASSUME NEW k \in Keys, NEW t \in 0..now', NEW a \in Int,
                      a >= t - MaxLockWait
               PROVE  LevelBound(k, t, a)'
    BY DEF LevelInv
  <2>0. LevelBound(k, t, a)' <=> Paid(taken[k] - takenBy'[k][t], buckets[k], t, a)
    BY <1>1 DEF LevelBound, Paid, Level
  <2>1. CASE t = now'
    <3>1. taken[k] - takenBy'[k][t] = 0 /\ buckets[k] \in Bucket
      BY <1>2, <1>4, <1>5, <1>t, <2>1
    <3>2. Paid(0, buckets[k], t, a)
      BY <1>4, <3>1, UntouchedLevel
    <3> QED
      BY <2>0, <3>1, <3>2
  <2>2. CASE t # now'
    <3>1. takenBy'[k][t] = takenBy[k][t] /\ t \in 0..now
      BY <1>2, <1>4, <2>2
    <3>2. LevelBound(k, t, a)
      BY <1>0, <3>1 DEF LevelInv
    <3> QED
      BY <2>0, <3>1, <3>2 DEF LevelBound
  <2> QED
    BY <2>1, <2>2
<1>7. RateBound'
  <2> SUFFICES ASSUME NEW k \in Keys, NEW t \in 0..now'
               PROVE  (taken'[k] - takenBy'[k][t]) * Minute
                        <= buckets'[k].rpm * (Minute + MaxLockWait + now' - t)
    BY DEF RateBound
  <2>0. buckets[k].rpm \in Nat /\ taken[k] \in Nat
    BY <1>t DEF Bucket
  <2>1. CASE t = now'
    <3>1. taken[k] - takenBy'[k][t] = 0 /\ 0 * Minute = 0
      BY <1>0, <1>2, <1>4, <1>5, <2>1
    <3>2. Minute + MaxLockWait + now' - t \in Nat
      BY <1>0, <1>1, <2>1
    <3>3. buckets[k].rpm * (Minute + MaxLockWait + now' - t) >= 0
      BY <2>0, <3>2
    <3> QED
      BY <1>1, <3>1, <3>3
  <2>2. CASE t # now'
    <3>1. takenBy'[k][t] = takenBy[k][t] /\ t \in 0..now /\ t \in 0..MaxNow
      BY <1>2, <1>4, <2>2
    <3>2. (taken[k] - takenBy[k][t]) * Minute
            <= buckets[k].rpm * (Minute + MaxLockWait + now - t)
      BY <1>0, <3>1 DEF RateBound
    <3>3. /\ Minute + MaxLockWait + now - t \in Int
          /\ Minute + MaxLockWait + now' - t \in Int
          /\ Minute + MaxLockWait + now - t <= Minute + MaxLockWait + now' - t
      BY <1>0, <1>1, <3>1
    <3>4. /\ buckets[k].rpm * (Minute + MaxLockWait + now - t)
               <= buckets[k].rpm * (Minute + MaxLockWait + now' - t)
          /\ buckets[k].rpm * (Minute + MaxLockWait + now - t) \in Int
          /\ buckets[k].rpm * (Minute + MaxLockWait + now' - t) \in Int
      BY <2>0, <3>3, MulMono
    <3>5. takenBy[k][t] \in Nat
      BY <1>t, <3>1
    <3>6. (taken[k] - takenBy[k][t]) * Minute \in Int
      BY <1>0, <2>0, <3>5
    <3> QED
      BY <1>1, <3>1, <3>2, <3>4, <3>6
  <2> QED
    BY <2>1, <2>2
<1> QED
  BY <1>3, <1>6, <1>7

LEMMA RateNext == RateInv /\ [Next]_vars => RateInv'
<1> SUFFICES ASSUME RateInv, [Next]_vars PROVE RateInv'
  OBVIOUS
<1>0. TypeOK /\ LockInv /\ FreshInv /\ LevelInv /\ RateBound
  BY DEF RateInv
<1>1. TypeOK' /\ LockInv'
  BY <1>0, NextType, LockNext
<1>2. ASSUME NEW r \in Requests, Begin(r) PROVE FreshInv' /\ LevelInv' /\ RateBound'
  BY <1>2, RateBegin
<1>3. ASSUME Tick PROVE FreshInv' /\ LevelInv' /\ RateBound'
  BY <1>3, RateTick
<1>4. ASSUME NEW r \in Requests,
             \/ \E k \in Keys, path \in Paths : Authenticate(r, k, path)
             \/ LeaveEarly(r) \/ CallBegin(r) \/ Finalize(r)
             \/ \E n \in TokenCounts \cup {0}, c \in Costs \cup {0},
                   b \in BOOLEAN : CallFinalize(r, n, c, b)
      PROVE  UNCHANGED <<now, buckets, taken, takenBy>>
  BY <1>4 DEF Authenticate, LeaveEarly, CallBegin, Finalize, FinalizeMeters,
              CallFinalize, meters, history
<1>5. ASSUME Adopt \/ UNCHANGED vars PROVE UNCHANGED <<now, buckets, taken, takenBy>>
  BY <1>5 DEF Adopt, vars, meters, history
<1>6. FreshInv' /\ LevelInv' /\ RateBound'
  BY <1>0, <1>2, <1>3, <1>4, <1>5, RateIdle DEF Next
<1> QED
  BY <1>1, <1>6 DEF RateInv

\* For every limit, load and sequence of adoptions, a key takes in any window
\* of time at most one full bucket plus the refill of that window and of the
\* longest wait for the lock, although late callers turn the bucket's clock
\* back.
THEOREM RateIsBounded == Spec => []RateBound
<1>1. Init => RateInv
  BY RateInit
<1>2. RateInv /\ [Next]_vars => RateInv'
  BY RateNext
<1>3. RateInv => RateBound
  BY DEF RateInv
<1> QED
  BY <1>1, <1>2, <1>3, PTL DEF Spec

-----------------------------------------------------------------------------
(***************************************************************************)
(* The budgets.  A budget blocks when the ledger Begin reads is never      *)
(* short of what was charged in the window.  Begin's pruning keeps the     *)
(* entry of the window it asks for; a charge is booked in the window of    *)
(* the instant Finalize read; so the ledger follows the bill when that     *)
(* instant is the present one (nobody waits for the lock over a midnight)  *)
(* and when no adoption switches a ledger on, off or to another window.    *)
(***************************************************************************)

\* A request carries the key some snapshot gave it.
Carried ==
    \A r \in Requests :
      req[r].pc # "idle" => \E s \in Snapshots : req[r].vk = s[req[r].key]

\* What a key was charged in the window of its budget.
Owed(k, vk) == IF vk.month THEN bill[k].month ELSE bill[k].day

LedgerInv ==
    \A s \in Snapshots : \A k \in Keys :
      Metered(s[k]) => Owed(k, s[k]) <= SpendIn(spend[k], budgetWindow(s[k], now))

TeamInv ==
    \A s \in Snapshots : \A k \in Keys :
      effectiveTeamBudget(s[k]) > 0
        => teamBill[s[k].team] <= SpendIn(teamSpend[s[k].team], DayWindow(now))

BudgetInv == TypeOK /\ LockInv /\ Carried /\ LedgerInv /\ TeamInv

\* Reading a ledger prunes it and keeps what was asked for; a charge adds its
\* amount to the window it is booked in.
LEMMA SpendKept ==
    ASSUME NEW e \in Ledger, NEW w, NEW c \in Nat
    PROVE  /\ SpendIn(e, w) \in Nat
           /\ SpendIn(Pruned(e, w), w) = SpendIn(e, w)
           /\ SpendIn(Charged(e, w, c), w) = SpendIn(e, w) + c
<1>1. SpendIn(e, w) \in Nat
  BY DEF SpendIn, Ledger
<1>2. SpendIn(NoSpend, w) = 0
  BY DEF SpendIn, NoSpend
<1>3. SpendIn(Pruned(e, w), w) = SpendIn(e, w)
  BY <1>2 DEF SpendIn, Pruned
<1> QED
  BY <1>1, <1>3 DEF SpendIn, Charged

\* A key with a team budget has a team.
LEMMA FundedTeam ==
    ASSUME NEW vk \in VirtualKey, effectiveTeamBudget(vk) > 0 PROVE vk.team \in Teams
BY DEF effectiveTeamBudget, VirtualKey

LEMMA SnapshotKeys ==
    \A s \in Snapshots : \A k \in Keys : s[k] \in VirtualKey
BY KeyAssumption

LEMMA CarriedNext == ASSUME TypeOK, Carried, [Next]_vars PROVE Carried'
<1> USE DEF meters, history
<1>0. req \in [Requests -> Request] /\ snap \in Snapshots
  BY DEF TypeOK
<1>i. Idle.pc = "idle"
  BY DEF Idle, Arrived
<1>1. ASSUME NEW r \in Requests, NEW q, req' = [req EXCEPT ![r] = q],
             \/ q.pc = "idle"
             \/ req[r].pc # "idle" /\ q.vk = req[r].vk /\ q.key = req[r].key
             \/ \E s \in Snapshots : q.vk = s[q.key]
      PROVE  Carried'
  <2>1. \A x \in Requests : req'[x] = IF x = r THEN q ELSE req[x]
    BY <1>0, <1>1
  <2>2. q.pc # "idle" => \E s \in Snapshots : q.vk = s[q.key]
    BY <1>1 DEF Carried
  <2> QED
    BY <2>1, <2>2 DEF Carried
<1>2. ASSUME NEW r \in Requests, NEW k, NEW path, Authenticate(r, k, path)
      PROVE  Carried'
  <2>1. Arrived(k, path, snap[k]).vk = snap[k] /\ Arrived(k, path, snap[k]).key = k
    BY DEF Arrived
  <2> QED
    BY <1>0, <1>1, <1>2, <2>1 DEF Authenticate
<1>3. ASSUME NEW r \in Requests, LeaveEarly(r) \/ Finalize(r) PROVE Carried'
  BY <1>1, <1>3, <1>i DEF LeaveEarly, Finalize
<1>4. ASSUME NEW r \in Requests, CallBegin(r) PROVE Carried'
  <2> DEFINE q == [req[r] EXCEPT !.pc = "beginning", !.at = now]
  <2>1. req' = [req EXCEPT ![r] = q] /\ req[r].pc # "idle"
    BY <1>4 DEF CallBegin
  <2>2. q.vk = req[r].vk /\ q.key = req[r].key
    BY <1>0 DEF Request
  <2> HIDE DEF q
  <2> QED
    BY <1>1, <2>1, <2>2
<1>5. ASSUME NEW r \in Requests, Begin(r) PROVE Carried'
  <2> DEFINE p == [req[r] EXCEPT !.pc = "running"]
             q == [req[r] EXCEPT !.pc = "refused"]
  <2>1. /\ req[r].pc # "idle"
        /\ \/ req' = [req EXCEPT ![r] = p]
           \/ req' = [req EXCEPT ![r] = q]
           \/ req' = [req EXCEPT ![r] = Idle]
    BY <1>5 DEF Begin, Become
  <2>2. /\ p.vk = req[r].vk /\ p.key = req[r].key
        /\ q.vk = req[r].vk /\ q.key = req[r].key
    BY <1>0 DEF Request
  <2> HIDE DEF p, q
  <2> QED
    BY <1>1, <1>i, <2>1, <2>2
<1>6. ASSUME NEW r \in Requests, NEW n, NEW c, NEW committed,
             CallFinalize(r, n, c, committed)
      PROVE  Carried'
  <2> DEFINE p == IF req[r].pc = "running" THEN "finalizing" ELSE "refunding"
             q == [req[r] EXCEPT !.pc = p, !.at = now, !.tokens = n,
                                 !.cost = c, !.committed = committed]
  <2>1. req' = [req EXCEPT ![r] = q] /\ req[r].pc # "idle"
    BY <1>6 DEF CallFinalize
  <2>2. q.vk = req[r].vk /\ q.key = req[r].key
    BY <1>0 DEF Request
  <2> HIDE DEF q
  <2> QED
    BY <1>1, <2>1, <2>2
<1>7. CASE Adopt \/ Tick \/ UNCHANGED vars
  BY <1>7 DEF Carried, Adopt, Tick, vars
<1> QED
  BY <1>2, <1>3, <1>4, <1>5, <1>6, <1>7 DEF Next

LEMMA BudgetInit == Init => BudgetInv
<1> SUFFICES ASSUME Init PROVE BudgetInv
  OBVIOUS
<1>1. TypeOK /\ LockInv
  BY InitType, RateInit DEF RateInv
<1>2. Carried
  BY DEF Carried, Init, Idle, Arrived
<1>3. \A w : SpendIn(NoSpend, w) = 0
  BY DEF SpendIn, NoSpend
<1>4. LedgerInv
  BY <1>3 DEF LedgerInv, Init, Owed
<1>5. TeamInv
  <2> SUFFICES ASSUME NEW s \in Snapshots, NEW k \in Keys,
                      effectiveTeamBudget(s[k]) > 0
               PROVE  teamBill[s[k].team]
                        <= SpendIn(teamSpend[s[k].team], DayWindow(now))
    BY DEF TeamInv
  <2>1. s[k].team \in Teams
    BY SnapshotKeys, FundedTeam
  <2> QED
    BY <1>3, <2>1 DEF Init
<1> QED
  BY <1>1, <1>2, <1>4, <1>5 DEF BudgetInv

\* Reading prunes, and keeps what the window holds.
LEMMA BudgetBegin ==
    ASSUME MaxLockWait = 0, BudgetsStable, BudgetInv, NEW r \in Requests, Begin(r)
    PROVE  LedgerInv' /\ TeamInv'
<1> DEFINE k == req[r].key
           vk == req[r].vk
           st == Stage(k, vk, req[r].at)
<1>0. /\ TypeOK /\ LockInv /\ Carried /\ LedgerInv /\ TeamInv
      /\ req[r] \in Request /\ k \in Keys /\ vk \in VirtualKey
      /\ spend \in [Keys -> Ledger] /\ teamSpend \in [Teams -> Ledger]
      /\ req[r].at \in Nat /\ now \in Nat
  BY DEF BudgetInv, TypeOK, Request
<1>a. req[r].at = now
  <2>1. req[r].at <= now /\ now - req[r].at <= MaxLockWait
    BY <1>0 DEF LockInv, AwaitsLock, Begin
  <2>2. req[r].at \in Nat /\ now \in Nat
    BY <1>0
  <2> QED
    BY <2>1, <2>2
<1>u. now' = now /\ bill' = bill /\ teamBill' = teamBill
  BY DEF Begin
<1>v. PICK z \in Snapshots : vk = z[k]
  BY <1>0 DEF Carried, Begin
<1>1. \/ spend' = spend
      \/ spend' = [spend EXCEPT ![k] = Pruned(@, budgetWindow(vk, now))]
  BY <1>a DEF Begin, BeginMeters
<1>2. \/ teamSpend' = teamSpend
      \/ /\ effectiveTeamBudget(vk) > 0
         /\ teamSpend' = [teamSpend EXCEPT ![vk.team] = Pruned(@, DayWindow(now))]
  BY <1>a DEF Begin, BeginMeters
<1> HIDE DEF st
<1>3. LedgerInv'
  <2> SUFFICES ASSUME NEW s \in Snapshots, NEW j \in Keys, Metered(s[j])
               PROVE  Owed(j, s[j])' <= SpendIn(spend'[j], budgetWindow(s[j], now'))
    BY DEF LedgerInv
  <2>1. Owed(j, s[j])' = Owed(j, s[j])
    BY <1>u DEF Owed
  <2>2. Owed(j, s[j]) <= SpendIn(spend[j], budgetWindow(s[j], now))
    BY <1>0 DEF LedgerInv
  <2>3. SpendIn(spend'[j], budgetWindow(s[j], now)) = SpendIn(spend[j], budgetWindow(s[j], now))
    <3>1. CASE spend' = spend
      BY <3>1
    <3>2. CASE j # k
      BY <1>0, <1>1, <3>2
    <3>3. CASE j = k /\ spend' = [spend EXCEPT ![k] = Pruned(@, budgetWindow(vk, now))]
      <4>1. budgetWindow(vk, now) = budgetWindow(s[j], now)
        BY <1>v, <3>3 DEF BudgetsStable, budgetWindow
      <4>2. spend'[j] = Pruned(spend[j], budgetWindow(s[j], now)) /\ spend[j] \in Ledger
        BY <1>0, <3>3, <4>1
      <4> QED
        BY <4>2, SpendKept
    <3> QED
      BY <1>1, <3>1, <3>2, <3>3
  <2> QED
    BY <1>u, <2>1, <2>2, <2>3
<1>4. TeamInv'
  <2> SUFFICES ASSUME NEW s \in Snapshots, NEW j \in Keys,
                      effectiveTeamBudget(s[j]) > 0
               PROVE  teamBill'[s[j].team]
                        <= SpendIn(teamSpend'[s[j].team], DayWindow(now'))
    BY DEF TeamInv
  <2> DEFINE t == s[j].team
  <2>1. t \in Teams
    BY SnapshotKeys, FundedTeam
  <2>2. teamBill[t] <= SpendIn(teamSpend[t], DayWindow(now))
    BY <1>0 DEF TeamInv
  <2>v. effectiveTeamBudget(vk) > 0 => vk.team \in Teams
    BY <1>0, FundedTeam
  <2> HIDE DEF t
  <2>3. SpendIn(teamSpend'[t], DayWindow(now)) = SpendIn(teamSpend[t], DayWindow(now))
    <3>1. CASE teamSpend' = teamSpend
      BY <3>1
    <3>2. CASE /\ effectiveTeamBudget(vk) > 0
               /\ teamSpend' = [teamSpend EXCEPT ![vk.team] = Pruned(@, DayWindow(now))]
      <4>1. CASE t # vk.team
        BY <1>0, <2>1, <3>2, <4>1
      <4>2. CASE t = vk.team
        <5>1. teamSpend'[t] = Pruned(teamSpend[t], DayWindow(now)) /\ teamSpend[t] \in Ledger
          BY <1>0, <2>1, <3>2, <4>2
        <5> QED
          BY <5>1, SpendKept
      <4> QED
        BY <4>1, <4>2
    <3> QED
      BY <1>2, <3>1, <3>2
  <2> QED
    BY <1>u, <2>2, <2>3 DEF t
<1> QED
  BY <1>3, <1>4

\* A charge is booked, in the ledgers that admission reads, as it is billed.
LEMMA BudgetFinalize ==
    ASSUME MaxLockWait = 0, BudgetsStable, BudgetInv, NEW r \in Requests, Finalize(r)
    PROVE  LedgerInv' /\ TeamInv'
<1> DEFINE k == req[r].key
           vk == req[r].vk
           cost == req[r].cost
           done == req[r].committed
<1>0. /\ TypeOK /\ LockInv /\ Carried /\ LedgerInv /\ TeamInv
      /\ req[r] \in Request /\ k \in Keys /\ vk \in VirtualKey /\ cost \in Nat
      /\ spend \in [Keys -> Ledger] /\ teamSpend \in [Teams -> Ledger]
      /\ req[r].at \in Nat /\ now \in Nat /\ done \in BOOLEAN
      /\ bill \in [Keys -> [day : Nat, month : Nat]] /\ teamBill \in [Teams -> Nat]
  BY DEF BudgetInv, TypeOK, Request
<1>a. req[r].at = now
  <2>1. req[r].at <= now /\ now - req[r].at <= MaxLockWait
    BY <1>0 DEF LockInv, AwaitsLock, Finalize
  <2>2. req[r].at \in Nat /\ now \in Nat
    BY <1>0
  <2> QED
    BY <2>1, <2>2
<1>u. now' = now
  BY DEF Finalize
<1>v. PICK z \in Snapshots : vk = z[k]
  BY <1>0 DEF Carried, Finalize
<1>1. /\ spend' = IF done /\ cost > 0 /\ Metered(vk)
                  THEN [spend EXCEPT ![k] = Charged(@, budgetWindow(vk, now), cost)]
                  ELSE spend
      /\ teamSpend' = IF done /\ cost > 0 /\ effectiveTeamBudget(vk) > 0
                      THEN [teamSpend EXCEPT ![vk.team] = Charged(@, DayWindow(now), cost)]
                      ELSE teamSpend
      /\ teamBill' = IF done /\ vk.team # NoTeam
                     THEN [teamBill EXCEPT ![vk.team] = @ + cost] ELSE teamBill
  BY <1>a DEF Finalize, FinalizeMeters, Metered
<1>2. /\ \A j \in Keys : j # k \/ ~done => bill'[j] = bill[j]
      /\ done => /\ bill'[k].day = bill[k].day + cost
                 /\ bill'[k].month = bill[k].month + cost
  <2>1. bill' = IF done
                THEN [bill EXCEPT ![k].day = @ + cost, ![k].month = @ + cost]
                ELSE bill
    BY <1>a DEF Finalize, FinalizeMeters
  <2>2. /\ bill[k] \in [day : Nat, month : Nat] /\ cost \in Nat /\ k \in Keys
        /\ bill \in [Keys -> [day : Nat, month : Nat]]
    BY <1>0
  <2> QED
    BY <2>1, <2>2
<1> HIDE DEF cost, done
<1>3. LedgerInv'
  <2> SUFFICES ASSUME NEW s \in Snapshots, NEW j \in Keys, Metered(s[j])
               PROVE  Owed(j, s[j])' <= SpendIn(spend'[j], budgetWindow(s[j], now'))
    BY DEF LedgerInv
  <2>0. /\ Owed(j, s[j]) \in Nat /\ spend[j] \in Ledger
        /\ Owed(j, s[j]) <= SpendIn(spend[j], budgetWindow(s[j], now))
    BY <1>0 DEF LedgerInv, Owed
  <2>1. CASE j # k \/ ~done
    <3>1. spend'[j] = spend[j] /\ bill'[j] = bill[j]
      BY <1>0, <1>1, <1>2, <2>1
    <3> QED
      BY <1>u, <2>0, <3>1 DEF Owed
  <2>2. CASE j = k /\ done
    <3>1. Owed(j, s[j])' = Owed(j, s[j]) + cost
      BY <1>0, <1>2, <2>2 DEF Owed
    <3>2. Metered(vk) /\ budgetWindow(vk, now) = budgetWindow(s[j], now)
      BY <1>v, <2>2 DEF BudgetsStable, budgetWindow
    <3>3. SpendIn(spend'[j], budgetWindow(s[j], now))
            = SpendIn(spend[j], budgetWindow(s[j], now)) + cost
      <4>1. CASE cost > 0
        <5>1. spend'[j] = Charged(spend[j], budgetWindow(s[j], now), cost)
          BY <1>0, <1>1, <2>2, <3>2, <4>1
        <5> QED
          BY <1>0, <2>0, <5>1, SpendKept
      <4>2. CASE ~(cost > 0)
        <5>1. spend' = spend /\ cost = 0
          BY <1>0, <1>1, <4>2
        <5>2. SpendIn(spend[j], budgetWindow(s[j], now)) \in Nat
          BY <1>0, <2>0, SpendKept
        <5> QED
          BY <5>1, <5>2
      <4> QED
        BY <4>1, <4>2
    <3>4. SpendIn(spend[j], budgetWindow(s[j], now)) \in Nat
      BY <1>0, <2>0, SpendKept
    <3> QED
      BY <1>0, <1>u, <2>0, <3>1, <3>3, <3>4
  <2> QED
    BY <2>1, <2>2
<1>4. TeamInv'
  <2> SUFFICES ASSUME NEW s \in Snapshots, NEW j \in Keys,
                      effectiveTeamBudget(s[j]) > 0
               PROVE  teamBill'[s[j].team]
                        <= SpendIn(teamSpend'[s[j].team], DayWindow(now'))
    BY DEF TeamInv
  <2> DEFINE t == s[j].team
  <2>1. t \in Teams /\ t # NoTeam
    BY SnapshotKeys, FundedTeam, KeyAssumption
  <2>2. teamBill[t] <= SpendIn(teamSpend[t], DayWindow(now))
    BY <1>0 DEF TeamInv
  <2>v. t = vk.team => effectiveTeamBudget(vk) > 0
    BY <1>0, <1>v DEF BudgetsStable
  <2>w. effectiveTeamBudget(vk) > 0 => vk.team \in Teams
    BY <1>0, FundedTeam
  <2> HIDE DEF t
  <2>n. /\ teamBill[t] \in Nat /\ teamSpend[t] \in Ledger
        /\ SpendIn(teamSpend[t], DayWindow(now)) \in Nat
    BY <1>0, <2>1, SpendKept
  <2>3. CASE t # vk.team \/ ~done
    <3>1. teamSpend'[t] = teamSpend[t] /\ teamBill'[t] = teamBill[t]
      BY <1>0, <1>1, <2>1, <2>3
    <3> QED
      BY <1>u, <2>2, <3>1 DEF t
  <2>4. CASE t = vk.team /\ done
    <3>1. teamBill'[t] = teamBill[t] + cost
      BY <1>0, <1>1, <2>1, <2>4
    <3>2. CASE cost > 0
      <4>1. teamSpend'[t] = Charged(teamSpend[t], DayWindow(now), cost)
        BY <1>0, <1>1, <2>1, <2>4, <2>v, <3>2
      <4>2. SpendIn(teamSpend'[t], DayWindow(now))
              = SpendIn(teamSpend[t], DayWindow(now)) + cost
        BY <1>0, <2>n, <4>1, SpendKept
      <4> QED
        BY <1>0, <1>u, <2>2, <2>n, <3>1, <4>2 DEF t
    <3>3. CASE ~(cost > 0)
      <4>1. teamSpend' = teamSpend /\ cost = 0
        BY <1>0, <1>1, <3>3
      <4> QED
        BY <1>u, <2>2, <2>n, <3>1, <4>1 DEF t
    <3> QED
      BY <3>2, <3>3
  <2> QED
    BY <2>3, <2>4
<1> QED
  BY <1>3, <1>4

\* A new day, or month, starts with nothing billed.
LEMMA BudgetTick == ASSUME BudgetInv, Tick PROVE LedgerInv' /\ TeamInv'
<1>0. /\ TypeOK /\ LedgerInv /\ TeamInv /\ spend \in [Keys -> Ledger]
      /\ teamSpend \in [Teams -> Ledger]
  BY DEF BudgetInv, TypeOK
<1>u. /\ spend' = spend /\ teamSpend' = teamSpend
      /\ bill' = [k \in Keys |->
                    [day   |-> IF DayOf(now') = DayOf(now) THEN bill[k].day ELSE 0,
                     month |-> IF MonthOf(now') = MonthOf(now)
                               THEN bill[k].month ELSE 0]]
      /\ teamBill' = IF DayOf(now') = DayOf(now)
                     THEN teamBill ELSE [t \in Teams |-> 0]
  BY DEF Tick, meters
<1>1. LedgerInv'
  <2> SUFFICES ASSUME NEW s \in Snapshots, NEW j \in Keys, Metered(s[j])
               PROVE  Owed(j, s[j])' <= SpendIn(spend'[j], budgetWindow(s[j], now'))
    BY DEF LedgerInv
  <2>0. /\ Owed(j, s[j]) <= SpendIn(spend[j], budgetWindow(s[j], now))
        /\ spend[j] \in Ledger
    BY <1>0 DEF LedgerInv
  <2>1. SpendIn(spend[j], budgetWindow(s[j], now')) \in Nat
    BY <2>0 DEF SpendIn, Ledger
  <2>2. CASE budgetWindow(s[j], now') = budgetWindow(s[j], now)
    <3>1. Owed(j, s[j])' = Owed(j, s[j])
      BY <1>u, <2>2 DEF Owed, budgetWindow, DayWindow, MonthWindow
    <3> QED
      BY <1>u, <2>0, <2>2, <3>1
  <2>3. CASE budgetWindow(s[j], now') # budgetWindow(s[j], now)
    <3>1. Owed(j, s[j])' = 0
      BY <1>u, <2>3 DEF Owed, budgetWindow, DayWindow, MonthWindow
    <3> QED
      BY <1>u, <2>1, <3>1
  <2> QED
    BY <2>2, <2>3
<1>2. TeamInv'
  <2> SUFFICES ASSUME NEW s \in Snapshots, NEW j \in Keys,
                      effectiveTeamBudget(s[j]) > 0
               PROVE  teamBill'[s[j].team]
                        <= SpendIn(teamSpend'[s[j].team], DayWindow(now'))
    BY DEF TeamInv
  <2>1. s[j].team \in Teams
    BY SnapshotKeys, FundedTeam
  <2>2. teamBill[s[j].team] <= SpendIn(teamSpend[s[j].team], DayWindow(now))
    BY <1>0 DEF TeamInv
  <2>3. SpendIn(teamSpend[s[j].team], DayWindow(now')) \in Nat
    BY <1>0, <2>1 DEF SpendIn, Ledger
  <2> QED
    BY <1>u, <2>1, <2>2, <2>3 DEF DayWindow
<1> QED
  BY <1>1, <1>2

LEMMA BudgetNext ==
    ASSUME MaxLockWait = 0, BudgetsStable PROVE BudgetInv /\ [Next]_vars => BudgetInv'
<1> SUFFICES ASSUME BudgetInv, [Next]_vars PROVE BudgetInv'
  OBVIOUS
<1>0. TypeOK /\ LockInv /\ Carried /\ LedgerInv /\ TeamInv
  BY DEF BudgetInv
<1>1. TypeOK' /\ LockInv' /\ Carried'
  BY <1>0, NextType, LockNext, CarriedNext
<1>2. ASSUME UNCHANGED <<now, spend, teamSpend, bill, teamBill>>
      PROVE  LedgerInv' /\ TeamInv'
  BY <1>0, <1>2 DEF LedgerInv, TeamInv, Owed
<1>3. ASSUME NEW r \in Requests, Begin(r) PROVE LedgerInv' /\ TeamInv'
  BY <1>3, BudgetBegin
<1>4. ASSUME NEW r \in Requests, Finalize(r) PROVE LedgerInv' /\ TeamInv'
  BY <1>4, BudgetFinalize
<1>5. ASSUME Tick PROVE LedgerInv' /\ TeamInv'
  BY <1>5, BudgetTick
<1>6. ASSUME NEW r \in Requests,
             \/ \E k \in Keys, path \in Paths : Authenticate(r, k, path)
             \/ LeaveEarly(r) \/ CallBegin(r)
             \/ \E n \in TokenCounts \cup {0}, c \in Costs \cup {0},
                   b \in BOOLEAN : CallFinalize(r, n, c, b)
      PROVE  UNCHANGED <<now, spend, teamSpend, bill, teamBill>>
  BY <1>6 DEF Authenticate, LeaveEarly, CallBegin, CallFinalize, meters, history
<1>7. ASSUME Adopt \/ UNCHANGED vars
      PROVE  UNCHANGED <<now, spend, teamSpend, bill, teamBill>>
  BY <1>7 DEF Adopt, vars, meters, history
<1>8. LedgerInv' /\ TeamInv'
  BY <1>2, <1>3, <1>4, <1>5, <1>6, <1>7 DEF Next
<1> QED
  BY <1>1, <1>8 DEF BudgetInv

\* When no caller waits for the lock across a tick, and no adoption switches a
\* ledger on, off or to another window, no request of any caller is admitted
\* once what its key, or its team, was charged in the window has reached the
\* budget, the share, or the lower of team, organization and balance.
THEOREM BudgetIsEnforced ==
    ASSUME MaxLockWait = 0, BudgetsStable PROVE Spec => BudgetBlocks
<1> DEFINE A(r) == LET k == req[r].key
                       vk == req[r].vk
                       owed == IF vk.month THEN bill[k].month ELSE bill[k].day
                   IN  Admits(r) /\ DayOf(req[r].at) = DayOf(now) =>
                         /\ vk.budget > 0 => owed < vk.budget
                         /\ HasShare(vk) => owed < vk.share
                         /\ effectiveTeamBudget(vk) > 0
                              => teamBill[vk.team] < effectiveTeamBudget(vk)
<1>1. Init => BudgetInv
  BY BudgetInit
<1>2. BudgetInv /\ [Next]_vars => BudgetInv'
  BY BudgetNext
<1>3. BudgetInv /\ [Next]_vars => [\A r \in Requests : A(r)]_vars
  <2> SUFFICES ASSUME BudgetInv, Next, NEW r \in Requests, Admits(r) PROVE A(r)
    OBVIOUS
  <2> DEFINE k == req[r].key
             vk == req[r].vk
  <2>0. /\ TypeOK /\ LockInv /\ Carried /\ LedgerInv /\ TeamInv
        /\ k \in Keys /\ vk \in VirtualKey /\ req[r].at \in Nat /\ now \in Nat
        /\ spend \in [Keys -> Ledger] /\ teamSpend \in [Teams -> Ledger]
        /\ bill \in [Keys -> [day : Nat, month : Nat]] /\ teamBill \in [Teams -> Nat]
    BY DEF BudgetInv, TypeOK, Request
  <2>1. Begin(r) /\ Stage(k, vk, req[r].at) = Admitted
    BY <2>0, AdmissionIsBegin
  <2>2. req[r].at = now
    <3>1. req[r].at <= now /\ now - req[r].at <= MaxLockWait
      BY <2>0, <2>1 DEF LockInv, AwaitsLock, Begin
    <3>2. req[r].at \in Nat /\ now \in Nat
      BY <2>0
    <3> QED
      BY <3>1, <3>2
  <2>3. PICK z \in Snapshots : vk = z[k]
    BY <2>0, <2>1 DEF Carried, Begin
  <2>4. /\ ~BudgetExceeded(k, vk, now) /\ ~TeamExceeded(vk, now)
        /\ ~ShareExceeded(k, vk, now)
    BY <2>1, <2>2 DEF Stage, Admitted
  <2>5. /\ Metered(vk) => Owed(k, vk) <= SpendIn(spend[k], budgetWindow(vk, now))
        /\ Owed(k, vk) \in Nat
        /\ SpendIn(spend[k], budgetWindow(vk, now)) \in Nat
    BY <2>0, <2>3, SpendKept DEF LedgerInv, Owed
  <2>6. effectiveTeamBudget(vk) > 0
          => /\ teamBill[vk.team] <= SpendIn(teamSpend[vk.team], DayWindow(now))
             /\ teamBill[vk.team] \in Nat
             /\ SpendIn(teamSpend[vk.team], DayWindow(now)) \in Nat
    BY <2>0, <2>3, FundedTeam, SpendKept DEF TeamInv
  <2>7. /\ vk.budget \in Nat /\ vk.share \in Nat /\ effectiveTeamBudget(vk) \in Nat
    BY <2>0 DEF VirtualKey, effectiveTeamBudget
  <2>8. vk.budget > 0 => Owed(k, vk) < vk.budget
    BY <2>4, <2>5, <2>7 DEF BudgetExceeded, Metered
  <2>9. HasShare(vk) => Owed(k, vk) < vk.share
    BY <2>4, <2>5, <2>7 DEF ShareExceeded, Metered
  <2>10. effectiveTeamBudget(vk) > 0 => teamBill[vk.team] < effectiveTeamBudget(vk)
    BY <2>4, <2>6, <2>7 DEF TeamExceeded
  <2> QED
    BY <2>8, <2>9, <2>10 DEF Owed
<1>4. BudgetBlocks <=> [][\A r \in Requests : A(r)]_vars
  BY DEF BudgetBlocks
<1> HIDE DEF A
<1> QED
  BY <1>1, <1>2, <1>3, <1>4, PTL DEF Spec
=============================================================================
