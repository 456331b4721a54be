-------------------------- MODULE QuotaResetProofs --------------------------
(***************************************************************************)
(* Proofs about QuotaReset, for any number of keys, handlers and credits.  *)
(***************************************************************************)
EXTENDS QuotaReset, TLAPS

\* What every step but the insertion of a row does to a row: no settled row
\* changes, none becomes active, none appears or disappears.
QuietRow(old, new) ==
    /\ new \in Operation
    /\ new.leased => new.status = "pending"
    /\ Active(new) => Active(old)
    /\ Settled(old) => new = old
    /\ new.status = "none" <=> old.status = "none"
QuietRows ==
    /\ ops' \in [Keys -> Operation]
    /\ \A k \in Keys : QuietRow(ops[k], ops'[k])

LEMMA IdleType == Idle \in Call /\ NoUsage \in Usage /\ NoOperation \in Operation
  BY QuotaAssumption DEF Idle, Call, NoUsage, Usage, NoOperation, Operation

LEMMA SameRows ==
    ASSUME TypeOK, ops' = ops
    PROVE  QuietRows
  BY DEF TypeOK, QuietRows, QuietRow

\* Expiring leases is quiet, and makes rows unknown at most.
LEMMA ExpireIsQuiet ==
    ASSUME TypeOK, NEW S
    PROVE  /\ expirePendingReset(S) \in [Keys -> Operation]
           /\ \A k \in Keys :
                /\ QuietRow(ops[k], expirePendingReset(S)[k])
                /\ \/ expirePendingReset(S)[k] = ops[k]
                   \/ /\ ops[k].status = "pending"
                      /\ expirePendingReset(S)[k].status = "unknown"
<1> DEFINE new == expirePendingReset(S)
<1>1. ASSUME NEW k \in Keys
      PROVE  /\ QuietRow(ops[k], new[k])
             /\ \/ new[k] = ops[k]
                \/ ops[k].status = "pending" /\ new[k].status = "unknown"
  <2>1. ops[k] \in Operation /\ (ops[k].leased => ops[k].status = "pending")
    BY DEF TypeOK
  <2>2. CASE k \in S /\ ops[k].status = "pending" /\ ~ops[k].leased
    <3>1. new[k] = [ops[k] EXCEPT !.status = "unknown"]
      BY <2>2 DEF expirePendingReset
    <3>2. QED
      BY <2>1, <2>2, <3>1 DEF QuietRow, Operation, Active, Settled
  <2>3. CASE ~(k \in S /\ ops[k].status = "pending" /\ ~ops[k].leased)
    <3>1. new[k] = ops[k]
      BY <2>3 DEF expirePendingReset
    <3>2. QED
      BY <2>1, <3>1 DEF QuietRow
  <2>4. QED
    BY <2>2, <2>3
<1>2. new \in [Keys -> Operation]
  BY <1>1 DEF expirePendingReset, QuietRow
<1>3. QED
  BY <1>1, <1>2

LEMMA ExpireStep ==
    ASSUME TypeOK, NEW S, ops' = expirePendingReset(S)
    PROVE  QuietRows
  BY ExpireIsQuiet DEF QuietRows

LEMMA AnswerRows ==
    ASSUME TypeOK, NEW c \in Callers, NEW outcome, Answer(c, outcome)
    PROVE  QuietRows
<1> DEFINE k == call[c].key
<1>1. k \in Keys
  BY DEF TypeOK, Call
<1>2. PICK status \in {"succeeded", "failed", "unknown"} :
        ops' = [ops EXCEPT ![k] = AfterDispatch(ops[k], status)]
  BY DEF Answer
<1> HIDE DEF k
<1>3. ops[k] \in Operation /\ (ops[k].leased => ops[k].status = "pending")
  BY <1>1 DEF TypeOK
<1>4. QuietRow(ops[k], AfterDispatch(ops[k], status))
  BY <1>3 DEF QuietRow, AfterDispatch, Operation, Active, Settled
<1>5. AfterDispatch(ops[k], status) \in Operation
  BY <1>4 DEF QuietRow
<1>6. QED
  BY <1>1, <1>2, <1>4, <1>5 DEF QuietRows, QuietRow, TypeOK

LEMMA ConcludeRows ==
    ASSUME TypeOK, NEW c \in Callers, Conclude(c)
    PROVE  QuietRows
<1> DEFINE k == call[c].key
           new == [ops[k] EXCEPT !.status = "succeeded", !.source = "reconciled"]
<1>1. k \in Keys
  BY DEF TypeOK, Call
<1>2. \/ ops' = ops
      \/ ops[k].status = "unknown" /\ ops' = [ops EXCEPT ![k] = new]
  BY <1>1 DEF Conclude, TypeOK
<1> HIDE DEF k
<1>3. CASE ops' = ops
  BY <1>3, SameRows
<1>4. CASE ops[k].status = "unknown" /\ ops' = [ops EXCEPT ![k] = new]
  <2>1. ops[k] \in Operation /\ ~ops[k].leased
    BY <1>1, <1>4 DEF TypeOK
  <2>2. QuietRow(ops[k], new)
    BY <1>4, <2>1 DEF QuietRow, Operation, Active, Settled
  <2> HIDE DEF new
  <2>3. QED
    BY <1>1, <1>4, <2>2 DEF QuietRows, QuietRow, TypeOK
<1>5. QED
  BY <1>2, <1>3, <1>4

LEMMA ResolveRows ==
    ASSUME TypeOK, NEW k \in Keys, NEW resolution \in {"succeeded", "failed"},
           Resolve(k, resolution)
    PROVE  QuietRows
<1> DEFINE seen == expirePendingReset(Keys)
           new == [seen[k] EXCEPT !.status = resolution, !.source = "manual"]
<1>1. /\ seen \in [Keys -> Operation]
      /\ \A j \in Keys : QuietRow(ops[j], seen[j])
  BY ExpireIsQuiet
<1>2. seen[k].status = "unknown" /\ ops' = [seen EXCEPT ![k] = new]
  BY <1>1 DEF Resolve
<1> HIDE DEF seen
<1>3. QuietRow(ops[k], new)
  BY <1>1, <1>2 DEF QuietRow, Operation, Active, Settled
<1> HIDE DEF new
<1>4. QED
  BY <1>1, <1>2, <1>3 DEF QuietRows, QuietRow

LEMMA LeaseRows ==
    ASSUME TypeOK, NEW k \in Keys, LeaseEnds(k)
    PROVE  QuietRows
<1> DEFINE new == [ops[k] EXCEPT !.leased = FALSE]
<1>1. ops[k] \in Operation /\ ops[k].status = "pending"
  BY DEF LeaseEnds, TypeOK
<1>2. ops' = [ops EXCEPT ![k] = new]
  BY DEF LeaseEnds
<1>3. QuietRow(ops[k], new)
  BY <1>1 DEF QuietRow, Operation, Active, Settled
<1> HIDE DEF new
<1>4. QED
  BY <1>2, <1>3 DEF QuietRows, QuietRow, TypeOK

\* Prepare inserts a row only where there is none, and only when no row is
\* active.
LEMMA PrepareRows ==
    ASSUME TypeOK, NEW c \in Callers, Prepare(c)
    PROVE  \/ QuietRows /\ call' = [call EXCEPT ![c] = Idle]
           \/ /\ ops' \in [Keys -> Operation]
              /\ \A j \in Keys : ~Active(ops[j])
              /\ ops[call[c].key].status = "none"
              /\ ops'[call[c].key].status = "pending"
              /\ \A j \in Keys \ {call[c].key} : QuietRow(ops[j], ops'[j])
              /\ call' = [call EXCEPT ![c].pc = "dispatch"]
<1> DEFINE k == call[c].key
           seen == expirePendingReset(Keys)
           new == [NoOperation EXCEPT !.status = "pending", !.leased = TRUE,
                                      !.preflight = call[c].view]
<1>1. k \in Keys /\ call[c].view \in Usage
  BY DEF TypeOK, Call
<1>2. /\ seen \in [Keys -> Operation]
      /\ \A j \in Keys : /\ QuietRow(ops[j], seen[j])
                         /\ \/ seen[j] = ops[j]
                            \/ ops[j].status = "pending" /\ seen[j].status = "unknown"
  BY ExpireIsQuiet
<1>3. \/ /\ ops' = seen \/ ops' = ops
         /\ call' = [call EXCEPT ![c] = Idle]
      \/ /\ seen[k].status = "none" /\ ~Blocked(seen)
         /\ ops' = [seen EXCEPT ![k] = new]
         /\ call' = [call EXCEPT ![c].pc = "dispatch"]
  BY DEF Prepare, Return, Become
<1>4. CASE /\ ops' = seen \/ ops' = ops
           /\ call' = [call EXCEPT ![c] = Idle]
  BY <1>4, ExpireStep, SameRows
<1>5. CASE /\ seen[k].status = "none" /\ ~Blocked(seen)
           /\ ops' = [seen EXCEPT ![k] = new]
           /\ call' = [call EXCEPT ![c].pc = "dispatch"]
  <2>1. new \in Operation /\ new.status = "pending"
    BY <1>1, IdleType DEF Operation, NoOperation
  <2> HIDE DEF seen, new, k
  <2>2. ASSUME NEW j \in Keys PROVE ~Active(ops[j])
    <3>1. ~Active(seen[j])
      BY <1>5 DEF Blocked
    <3>2. QED
      BY <1>2, <3>1 DEF Active
  <2>3. ops[k].status = "none"
    BY <1>1, <1>2, <1>5 DEF QuietRow
  <2>4. QED
    BY <1>1, <1>2, <1>5, <2>1, <2>2, <2>3 DEF k
<1>6. QED
  BY <1>3, <1>4, <1>5

-----------------------------------------------------------------------------
(* Type correctness *)

\* The handlers and the provider keep their types in every step.
CallsTyped == call' \in [Callers -> Call]
ProviderTyped == flying' \subseteq Keys /\ quota' \in Usage /\ spent' \in [Keys -> Nat]

LEMMA ReturnType ==
    ASSUME TypeOK, NEW c \in Callers, Return(c)
    PROVE  CallsTyped
  BY IdleType DEF TypeOK, Return, CallsTyped

LEMMA BecomeType ==
    ASSUME TypeOK, NEW c \in Callers, NEW u \in Call, call' = [call EXCEPT ![c] = u]
    PROVE  CallsTyped
  BY DEF TypeOK, CallsTyped

LEMMA LookType ==
    ASSUME TypeOK, NEW c \in Callers, NEW pc \in {"credits", "compare"},
           call' = [call EXCEPT ![c].pc = pc, ![c].view.used = quota.used,
                                ![c].view.resetAt = quota.resetAt]
    PROVE  CallsTyped
<1> DEFINE u == [call[c] EXCEPT !.pc = pc, !.view.used = quota.used,
                                !.view.resetAt = quota.resetAt]
<1>1. call[c] \in Call /\ quota \in Usage
  BY DEF TypeOK
<1>2. u \in Call
  BY <1>1 DEF Call, Usage
<1>3. call' = [call EXCEPT ![c] = u]
  OBVIOUS
<1> HIDE DEF u
<1>4. QED
  BY <1>2, <1>3, BecomeType

LEMMA CountType ==
    ASSUME TypeOK, NEW c \in Callers, NEW pc \in {"prepare", "conclude"},
           call' = [call EXCEPT ![c].pc = pc, ![c].view.count = quota.count]
    PROVE  CallsTyped
<1> DEFINE u == [call[c] EXCEPT !.pc = pc, !.view.count = quota.count]
<1>1. call[c] \in Call /\ quota \in Usage
  BY DEF TypeOK
<1>2. u \in Call
  BY <1>1 DEF Call, Usage
<1>3. call' = [call EXCEPT ![c] = u]
  OBVIOUS
<1> HIDE DEF u
<1>4. QED
  BY <1>2, <1>3, BecomeType

LEMMA StepToType ==
    ASSUME TypeOK, NEW c \in Callers, NEW pc \in {"dispatch", "waiting"},
           call' = [call EXCEPT ![c].pc = pc]
    PROVE  CallsTyped
<1>1. [call[c] EXCEPT !.pc = pc] \in Call
  BY DEF TypeOK, Call
<1>2. QED
  BY <1>1, BecomeType

LEMMA EnterType ==
    ASSUME TypeOK, NEW c \in Callers, NEW k \in Keys, NEW pc \in {"usage", "look"},
           call' = [call EXCEPT ![c] = [Idle EXCEPT !.pc = pc, !.key = k]]
    PROVE  CallsTyped
<1>1. [Idle EXCEPT !.pc = pc, !.key = k] \in Call
  BY IdleType DEF Call
<1>2. QED
  BY <1>1, BecomeType

\* The window moves on within its bound.
LEMMA NewWindowType ==
    ASSUME NEW u \in Usage
    PROVE  NewWindow(u) \in Usage
<1> DEFINE at == IF u.resetAt < MaxWindow THEN u.resetAt + 1 ELSE u.resetAt
<1>1. at \in 1..MaxWindow
  BY QuotaAssumption DEF Usage
<1>2. NewWindow(u) = [u EXCEPT !.used = FALSE, !.resetAt = at]
  BY DEF NewWindow, Usage
<1> HIDE DEF at
<1>3. QED
  BY <1>1, <1>2 DEF Usage

LEMMA LandType ==
    ASSUME TypeOK, NEW k \in Keys, Land(k)
    PROVE  ProviderTyped
<1>1. quota \in Usage
  BY DEF TypeOK
<1>2. quota.count > 0 => [quota EXCEPT !.count = @ - 1] \in Usage
  BY <1>1, QuotaAssumption DEF Usage
<1>3. quota.count > 0 => NewWindow([quota EXCEPT !.count = @ - 1]) \in Usage
  BY <1>2, NewWindowType
<1>4. QED
  BY <1>1, <1>3 DEF Land, TypeOK, ProviderTyped

LEMMA ElsewhereType ==
    ASSUME TypeOK, Elsewhere
    PROVE  ProviderTyped
<1>1. quota \in Usage
  BY DEF TypeOK
<1>2. NewWindow(quota) \in Usage
  BY <1>1, NewWindowType
<1>3. quota.count > 0 => [quota EXCEPT !.count = @ - 1] \in Usage
  BY <1>1, QuotaAssumption DEF Usage
<1>4. QED
  BY <1>1, <1>2, <1>3 DEF Elsewhere, TypeOK, ProviderTyped

\* The steps that insert no row.
Quiet ==
    \/ \E c \in Callers :
         \/ \E k \in Keys : CallReset(c, k) \/ Reconcile(c, k)
         \/ ReadUsage(c) \/ ReadCredits(c) \/ Dispatch(c)
         \/ \E outcome \in {"succeeded", "failed", "unknown"} : Answer(c, outcome)
         \/ LookAtUsage(c) \/ LookAtCredits(c) \/ Conclude(c)
    \/ GetQuota
    \/ \E k \in Keys :
         \/ \E resolution \in {"succeeded", "failed"} : Resolve(k, resolution)
         \/ Land(k) \/ LeaseEnds(k)
    \/ UseQuota \/ Elsewhere \/ Crash
    \/ UNCHANGED vars

LEMMA NextIsQuietOrPrepare ==
    ASSUME [Next]_vars
    PROVE  Quiet \/ \E c \in Callers : Prepare(c)
  BY DEF Next, Step, Quiet

LEMMA QuietIsQuiet ==
    ASSUME TypeOK, Quiet
    PROVE  QuietRows
<1>1. ASSUME NEW c \in Callers, NEW k \in Keys, CallReset(c, k) \/ Reconcile(c, k)
      PROVE  QuietRows
  BY <1>1, ExpireStep DEF CallReset, Reconcile
<1>2. ASSUME NEW c \in Callers,
             \/ ReadUsage(c) \/ ReadCredits(c) \/ Dispatch(c)
             \/ LookAtUsage(c) \/ LookAtCredits(c)
      PROVE  QuietRows
  BY <1>2, SameRows DEF ReadUsage, ReadCredits, Dispatch, LookAtUsage, LookAtCredits
<1>3. CASE GetQuota
  BY <1>3, ExpireStep DEF GetQuota
<1>4. ASSUME NEW k \in Keys, Land(k)
      PROVE  QuietRows
  BY <1>4, SameRows DEF Land
<1>5. CASE UseQuota \/ Elsewhere \/ Crash \/ UNCHANGED vars
  BY <1>5, SameRows DEF UseQuota, Elsewhere, Crash, vars
<1>6. QED
  BY <1>1, <1>2, <1>3, <1>4, <1>5, AnswerRows, ConcludeRows, ResolveRows, LeaseRows
     DEF Quiet

LEMMA QuietTypes ==
    ASSUME TypeOK, Quiet
    PROVE  CallsTyped /\ ProviderTyped
<1>1. UNCHANGED <<flying, quota, spent>> => ProviderTyped
  BY DEF TypeOK, ProviderTyped
<1>2. UNCHANGED call => CallsTyped
  BY DEF TypeOK, CallsTyped
<1>3. ASSUME NEW c \in Callers, NEW k \in Keys, CallReset(c, k)
      PROVE  CallsTyped /\ ProviderTyped
  BY <1>1, <1>2, <1>3, EnterType DEF CallReset
<1>4. ASSUME NEW c \in Callers, NEW k \in Keys, Reconcile(c, k)
      PROVE  CallsTyped /\ ProviderTyped
  BY <1>1, <1>4, EnterType DEF Reconcile
<1>5. ASSUME NEW c \in Callers, ReadUsage(c) \/ LookAtUsage(c)
      PROVE  CallsTyped /\ ProviderTyped
  BY <1>1, <1>5, LookType, ReturnType DEF ReadUsage, LookAtUsage
<1>6. ASSUME NEW c \in Callers, ReadCredits(c) \/ LookAtCredits(c)
      PROVE  CallsTyped /\ ProviderTyped
  BY <1>1, <1>6, CountType, ReturnType DEF ReadCredits, LookAtCredits
<1>7. ASSUME NEW c \in Callers, Dispatch(c)
      PROVE  CallsTyped /\ ProviderTyped
  <2>1. call[c].key \in Keys
    BY DEF TypeOK, Call
  <2>2. ProviderTyped
    BY <1>7, <2>1 DEF Dispatch, TypeOK, ProviderTyped
  <2>3. QED
    BY <1>7, <2>2, StepToType DEF Dispatch, Become
<1>8. ASSUME NEW c \in Callers, NEW outcome, Answer(c, outcome)
      PROVE  CallsTyped /\ ProviderTyped
  BY <1>1, <1>8, ReturnType DEF Answer
<1>9. ASSUME NEW c \in Callers, Conclude(c)
      PROVE  CallsTyped /\ ProviderTyped
  BY <1>1, <1>9, ReturnType DEF Conclude
<1>10. CASE GetQuota
  BY <1>1, <1>2, <1>10 DEF GetQuota
<1>11. ASSUME NEW k \in Keys, NEW resolution, Resolve(k, resolution)
       PROVE  CallsTyped /\ ProviderTyped
  BY <1>1, <1>2, <1>11 DEF Resolve
<1>12. ASSUME NEW k \in Keys, Land(k)
       PROVE  CallsTyped /\ ProviderTyped
  BY <1>2, <1>12, LandType DEF Land
<1>13. ASSUME NEW k \in Keys, LeaseEnds(k)
       PROVE  CallsTyped /\ ProviderTyped
  BY <1>1, <1>2, <1>13 DEF LeaseEnds
<1>14. CASE UseQuota
  BY <1>2, <1>14 DEF UseQuota, TypeOK, ProviderTyped, Usage
<1>15. CASE Elsewhere
  BY <1>2, <1>15, ElsewhereType DEF Elsewhere
<1>16. CASE Crash
  BY <1>1, <1>16, IdleType DEF Crash, CallsTyped
<1>17. CASE UNCHANGED vars
  BY <1>1, <1>2, <1>17 DEF vars
<1>18. QED
  BY <1>3, <1>4, <1>5, <1>6, <1>7, <1>8, <1>9, <1>10, <1>11, <1>12, <1>13, <1>14,
     <1>15, <1>16, <1>17 DEF Quiet

LEMMA TypeStep ==
    ASSUME TypeOK, [Next]_vars
    PROVE  TypeOK'
<1>1. CASE Quiet
  <2>1. QuietRows /\ CallsTyped /\ ProviderTyped
    BY <1>1, QuietIsQuiet, QuietTypes
  <2>2. QED
    BY <2>1 DEF TypeOK, QuietRows, QuietRow, CallsTyped, ProviderTyped
<1>2. ASSUME NEW c \in Callers, Prepare(c)
      PROVE  TypeOK'
  <2>1. CallsTyped
    BY <1>2, PrepareRows, ReturnType, StepToType DEF Return
  <2>2. /\ ops' \in [Keys -> Operation]
        /\ \A k \in Keys : ops'[k].leased => ops'[k].status = "pending"
    BY <1>2, PrepareRows DEF QuietRows, QuietRow
  <2>3. QED
    BY <1>2, <2>1, <2>2 DEF Prepare, TypeOK, CallsTyped
<1>3. QED
  BY <1>1, <1>2, NextIsQuietOrPrepare

\* Every reachable state is well typed, and only pending rows have a lease
\* (quota.ts clears lease_expires_at wherever it leaves 'pending').
THEOREM TypeCorrect == Spec => []TypeOK
<1>1. Init => TypeOK
  BY IdleType, QuotaAssumption DEF Init, TypeOK, Usage, NoOperation
<1>2. QED
  BY <1>1, TypeStep, PTL DEF Spec

-----------------------------------------------------------------------------
(* One active row *)

LEMMA OneActiveStep ==
    ASSUME TypeOK, OneActive, [Next]_vars
    PROVE  OneActive'
<1>1. CASE Quiet
  BY <1>1, QuietIsQuiet DEF QuietRows, QuietRow, OneActive
<1>2. ASSUME NEW c \in Callers, Prepare(c)
      PROVE  OneActive'
  BY <1>2, PrepareRows DEF QuietRows, QuietRow, OneActive
<1>3. QED
  BY <1>1, <1>2, NextIsQuietOrPrepare

\* At most one reset is pending or unknown: the rows never meet the unique
\* index, for any number of concurrent handlers and keys.
THEOREM OneActiveReset == Spec => []OneActive
<1>1. Init => OneActive
  BY DEF Init, OneActive, Active, NoOperation
<1>2. QED
  BY <1>1, TypeCorrect, OneActiveStep, PTL DEF Spec

-----------------------------------------------------------------------------
(* Settled rows *)

\* A settled row is never changed again, whatever answers, reconciliations and
\* operators come late.
THEOREM SettledRowsStay == Spec => SettledStays
<1>1. ASSUME TypeOK, [Next]_vars
      PROVE  \A k \in Keys : Settled(ops[k]) => ops'[k] = ops[k]
  <2>1. CASE Quiet
    BY <1>1, <2>1, QuietIsQuiet DEF QuietRows, QuietRow
  <2>2. ASSUME NEW c \in Callers, Prepare(c)
        PROVE  \A k \in Keys : Settled(ops[k]) => ops'[k] = ops[k]
    BY <1>1, <2>2, PrepareRows DEF QuietRows, QuietRow, Settled
  <2>3. QED
    BY <1>1, <2>1, <2>2, NextIsQuietOrPrepare
<1>2. QED
  BY <1>1, TypeCorrect, PTL DEF Spec, SettledStays
-----------------------------------------------------------------------------
(* One credit per key *)

Sending(c) == call[c].pc \in {"dispatch", "waiting"}
\* No handler sends, or is about to send, for the key.
NoSender(k) == \A c \in Callers : Sending(c) => call[c].key # k
\* No credit was taken for the key, and no request for it can take one.
Unspent(k) ==
    spent[k] = 0 /\ k \notin flying /\ NoSender(k)

\* What makes OncePerKey inductive: a key has one handler that sends, its
\* request leaves once, and lands once.
KeyInv(k) ==
    /\ spent[k] <= 1
    /\ k \in flying => spent[k] = 0
    /\ ops[k].status = "none" => Unspent(k)
    /\ Answered(ops[k]) => NoSender(k)
    /\ \A c \in Callers :
         call[c].pc = "dispatch" /\ call[c].key = k => spent[k] = 0 /\ k \notin flying
    /\ \A c, d \in Callers :
         Sending(c) /\ Sending(d) /\ call[c].key = k /\ call[d].key = k => c = d
SpendInv == \A k \in Keys : KeyInv(k)

\* A step that sends nothing: nobody starts or advances a dispatch, the
\* provider takes nothing, and no dispatch settles a row.
NothingSent ==
    /\ UNCHANGED <<flying, spent>>
    /\ \A c \in Callers : Sending(c)' => call'[c] = call[c]
    /\ \A k \in Keys : /\ ops'[k].status = "none" => ops[k].status = "none"
                       /\ Answered(ops'[k]) => Answered(ops[k])

LEMMA NothingSentStep ==
    ASSUME SpendInv, NothingSent
    PROVE  SpendInv'
<1> SUFFICES ASSUME NEW k \in Keys PROVE KeyInv(k)'
  BY DEF SpendInv
<1>1. KeyInv(k)
  BY DEF SpendInv
<1>2. \A c \in Callers : Sending(c)' => Sending(c) /\ call'[c] = call[c]
  BY DEF NothingSent, Sending
<1>3. (Unspent(k) => Unspent(k)') /\ (NoSender(k) => NoSender(k)')
  BY <1>2 DEF NothingSent, Unspent, NoSender
<1>4. \A c \in Callers : call'[c].pc = "dispatch" => call'[c] = call[c]
  BY DEF NothingSent, Sending
<1>5. spent' = spent /\ flying' = flying
  BY DEF NothingSent
<1>6. /\ ops'[k].status = "none" => Unspent(k)'
      /\ Answered(ops'[k]) => NoSender(k)'
  BY <1>1, <1>3 DEF KeyInv, NothingSent
<1>7. \A c, d \in Callers :
        Sending(c)' /\ Sending(d)' /\ call'[c].key = k /\ call'[d].key = k => c = d
  BY <1>1, <1>2 DEF KeyInv
<1>8. QED
  BY <1>1, <1>4, <1>5, <1>6, <1>7 DEF KeyInv

\* Expired rows are unknown; nothing else changes.
LEMMA ExpireSendsNothing ==
    ASSUME TypeOK, NEW S, ops' = expirePendingReset(S) \/ ops' = ops
    PROVE  \A k \in Keys : /\ ops'[k].status = "none" => ops[k].status = "none"
                           /\ Answered(ops'[k]) => Answered(ops[k])
  BY ExpireIsQuiet DEF Answered, Settled

LEMMA ReturnSendsNothing ==
    ASSUME TypeOK, NEW c \in Callers, Return(c)
    PROVE  \A d \in Callers : Sending(d)' => d # c /\ call'[d] = call[d]
  BY DEF TypeOK, Return, Idle, Sending

LEMMA MoveSendsNothing ==
    ASSUME TypeOK, NEW c \in Callers, NEW u, call' = [call EXCEPT ![c] = u],
           u.pc \notin {"dispatch", "waiting"}
    PROVE  \A d \in Callers : Sending(d)' => call'[d] = call[d]
  BY DEF TypeOK, Sending

LEMMA SilentSteps ==
    ASSUME TypeOK, Quiet
    PROVE  \/ NothingSent
           \/ \E c \in Callers :
                Dispatch(c) \/ \E o \in {"succeeded", "failed", "unknown"} : Answer(c, o)
           \/ \E k \in Keys : Land(k)
<1>1. ASSUME NEW c \in Callers, NEW k \in Keys, CallReset(c, k) \/ Reconcile(c, k)
      PROVE  NothingSent
  <2> DEFINE u(pc) == [Idle EXCEPT !.pc = pc, !.key = k]
  <2>1. u("usage").pc = "usage" /\ u("look").pc = "look"
    BY DEF Idle
  <2>2. \/ call' = call
        \/ call' = [call EXCEPT ![c] = u("usage")]
        \/ call' = [call EXCEPT ![c] = u("look")]
    BY <1>1 DEF CallReset, Reconcile
  <2> HIDE DEF u
  <2>3. \A d \in Callers : Sending(d)' => call'[d] = call[d]
    BY <2>1, <2>2, MoveSendsNothing
  <2>4. QED
    BY <1>1, <2>3, ExpireSendsNothing DEF CallReset, Reconcile, NothingSent
<1>2. ASSUME NEW c \in Callers, ReadUsage(c) \/ LookAtUsage(c)
      PROVE  NothingSent
  <2> DEFINE u(pc) == [call[c] EXCEPT !.pc = pc, !.view.used = quota.used,
                                      !.view.resetAt = quota.resetAt]
  <2>1. u("credits").pc = "credits" /\ u("compare").pc = "compare"
    BY DEF TypeOK, Call
  <2>2. \/ Return(c)
        \/ call' = [call EXCEPT ![c] = u("credits")]
        \/ call' = [call EXCEPT ![c] = u("compare")]
    BY <1>2 DEF ReadUsage, LookAtUsage
  <2> HIDE DEF u
  <2>3. \A d \in Callers : Sending(d)' => call'[d] = call[d]
    BY <2>1, <2>2, MoveSendsNothing, ReturnSendsNothing
  <2>4. QED
    BY <1>2, <2>3 DEF ReadUsage, LookAtUsage, NothingSent
<1>3. ASSUME NEW c \in Callers, ReadCredits(c) \/ LookAtCredits(c)
      PROVE  NothingSent
  <2> DEFINE u(pc) == [call[c] EXCEPT !.pc = pc, !.view.count = quota.count]
  <2>1. u("prepare").pc = "prepare" /\ u("conclude").pc = "conclude"
    BY DEF TypeOK, Call
  <2>2. \/ Return(c)
        \/ call' = [call EXCEPT ![c] = u("prepare")]
        \/ call' = [call EXCEPT ![c] = u("conclude")]
    BY <1>3 DEF ReadCredits, LookAtCredits
  <2> HIDE DEF u
  <2>3. \A d \in Callers : Sending(d)' => call'[d] = call[d]
    BY <2>1, <2>2, MoveSendsNothing, ReturnSendsNothing
  <2>4. QED
    BY <1>3, <2>3 DEF ReadCredits, LookAtCredits, NothingSent
<1>4. ASSUME NEW c \in Callers, Conclude(c)
      PROVE  NothingSent
  <2>1. \A k \in Keys : /\ ops'[k].status = "none" => ops[k].status = "none"
                        /\ Answered(ops'[k]) => Answered(ops[k])
    BY <1>4 DEF Conclude, TypeOK, Operation, Answered, Settled
  <2>2. QED
    BY <1>4, <2>1, ReturnSendsNothing DEF Conclude, NothingSent
<1>5. ASSUME NEW k \in Keys, NEW resolution \in {"succeeded", "failed"},
             Resolve(k, resolution)
      PROVE  NothingSent
  <2> DEFINE seen == expirePendingReset(Keys)
             new == [seen[k] EXCEPT !.status = resolution, !.source = "manual"]
  <2>1. /\ seen \in [Keys -> Operation]
        /\ \A j \in Keys : \/ seen[j] = ops[j]
                           \/ ops[j].status = "pending" /\ seen[j].status = "unknown"
    BY ExpireIsQuiet
  <2>2. ops' = [seen EXCEPT ![k] = new]
    BY <1>5, <2>1 DEF Resolve
  <2> HIDE DEF seen
  <2>3. new.status = resolution /\ new.source = "manual"
    BY <2>1 DEF Operation
  <2> HIDE DEF new
  <2>4. ASSUME NEW j \in Keys
        PROVE  /\ ops'[j].status = "none" => ops[j].status = "none"
               /\ Answered(ops'[j]) => Answered(ops[j])
    BY <2>1, <2>2, <2>3 DEF Answered, Settled
  <2>5. QED
    BY <1>5, <2>4 DEF Resolve, NothingSent
<1>6. ASSUME NEW k \in Keys, LeaseEnds(k)
      PROVE  NothingSent
  BY <1>6 DEF LeaseEnds, NothingSent, TypeOK, Operation, Answered, Settled
<1>7. CASE GetQuota
  BY <1>7, ExpireSendsNothing DEF GetQuota, NothingSent
<1>8. CASE UseQuota \/ Elsewhere \/ UNCHANGED vars
  BY <1>8 DEF UseQuota, Elsewhere, vars, NothingSent
<1>9. CASE Crash
  BY <1>9 DEF Crash, NothingSent, Idle, Sending
<1>10. QED
  BY <1>1, <1>2, <1>3, <1>4, <1>5, <1>6, <1>7, <1>8, <1>9 DEF Quiet

LEMMA DispatchSpends ==
    ASSUME TypeOK, SpendInv, NEW c \in Callers, Dispatch(c)
    PROVE  SpendInv'
<1> SUFFICES ASSUME NEW k \in Keys PROVE KeyInv(k)'
  BY DEF SpendInv
<1>1. KeyInv(k)
  BY DEF SpendInv
<1>2. /\ call[c].pc = "dispatch" /\ ops' = ops /\ spent' = spent
      /\ flying' = flying \cup {call[c].key}
  BY DEF Dispatch
<1>3. /\ call'[c].pc = "waiting" /\ call'[c].key = call[c].key
      /\ \A d \in Callers \ {c} : call'[d] = call[d]
  BY DEF Dispatch, Become, TypeOK, Call
<1>4. CASE call[c].key = k
  BY <1>1, <1>2, <1>3, <1>4 DEF KeyInv, Unspent, NoSender, Sending
<1>5. CASE call[c].key # k
  BY <1>1, <1>2, <1>3, <1>5 DEF KeyInv, Unspent, NoSender, Sending
<1>6. QED
  BY <1>4, <1>5

LEMMA AnswerSpends ==
    ASSUME TypeOK, SpendInv, NEW c \in Callers,
           NEW outcome \in {"succeeded", "failed", "unknown"}, Answer(c, outcome)
    PROVE  SpendInv'
<1> SUFFICES ASSUME NEW k \in Keys PROVE KeyInv(k)'
  BY DEF SpendInv
<1>1. KeyInv(k)
  BY DEF SpendInv
<1>2. spent' = spent /\ flying' = flying /\ Sending(c)
  BY DEF Answer, Sending
<1>3. \A d \in Callers : Sending(d)' => Sending(d) /\ d # c /\ call'[d] = call[d]
  BY ReturnSendsNothing DEF Answer, Sending
<1>4. (Unspent(k) => Unspent(k)') /\ (NoSender(k) => NoSender(k)')
  BY <1>2, <1>3 DEF Unspent, NoSender
<1>5. call[c].key = k => NoSender(k)'
  BY <1>1, <1>2, <1>3 DEF KeyInv, NoSender
<1>6. /\ ops'[k].status = "none" => ops[k].status = "none"
      /\ call[c].key # k => ops'[k] = ops[k]
  <2>1. ops[k] \in Operation
    BY DEF TypeOK
  <2>2. CASE call[c].key # k
    BY <2>2 DEF Answer, TypeOK
  <2>3. CASE call[c].key = k
    <3>1. PICK status \in {"succeeded", "failed", "unknown"} :
            ops'[k] = AfterDispatch(ops[k], status)
      BY <2>3 DEF Answer, TypeOK
    <3>2. QED
      BY <2>1, <2>3, <3>1 DEF AfterDispatch, Operation
  <2>4. QED
    BY <2>2, <2>3
<1>7. /\ ops'[k].status = "none" => Unspent(k)'
      /\ Answered(ops'[k]) => NoSender(k)'
  BY <1>1, <1>4, <1>5, <1>6 DEF KeyInv
<1>8. \A d \in Callers : call'[d].pc = "dispatch" => call'[d] = call[d]
  BY <1>3 DEF Sending
<1>9. \A d, e \in Callers :
        Sending(d)' /\ Sending(e)' /\ call'[d].key = k /\ call'[e].key = k => d = e
  BY <1>1, <1>3 DEF KeyInv
<1>10. QED
  BY <1>1, <1>2, <1>7, <1>8, <1>9 DEF KeyInv

LEMMA LandSpends ==
    ASSUME TypeOK, SpendInv, NEW j \in Keys, Land(j)
    PROVE  SpendInv'
<1> SUFFICES ASSUME NEW k \in Keys PROVE KeyInv(k)'
  BY DEF SpendInv
<1>1. KeyInv(k) /\ spent[k] \in Nat
  BY DEF SpendInv, TypeOK
<1>2. call' = call /\ ops' = ops /\ flying' = flying \ {j} /\ j \in flying
  BY DEF Land
<1>3. \/ spent'[k] = spent[k]
      \/ k = j /\ spent'[k] = spent[k] + 1
  BY DEF Land, TypeOK
<1>4. CASE k = j
  BY <1>1, <1>2, <1>3, <1>4 DEF KeyInv, Unspent, NoSender, Sending
<1>5. CASE k # j
  BY <1>1, <1>2, <1>3, <1>5 DEF KeyInv, Unspent, NoSender, Sending
<1>6. QED
  BY <1>4, <1>5

LEMMA PrepareSpends ==
    ASSUME TypeOK, SpendInv, NEW c \in Callers, Prepare(c)
    PROVE  SpendInv'
<1>1. spent' = spent /\ flying' = flying /\ call[c].pc = "prepare"
  BY DEF Prepare
<1>2. CASE QuietRows /\ Return(c)
  <2>1. ops' = expirePendingReset(Keys) \/ ops' = ops \/ call'[c].pc = "dispatch"
    BY DEF Prepare, Become, TypeOK, Call
  <2>2. call'[c].pc = "idle"
    BY <1>2 DEF Return, TypeOK, Idle
  <2>3. NothingSent
    BY <1>1, <1>2, <2>1, <2>2, ReturnSendsNothing, ExpireSendsNothing DEF NothingSent
  <2>4. QED
    BY <2>3, NothingSentStep
<1>3. CASE /\ ops[call[c].key].status = "none"
           /\ ops'[call[c].key].status = "pending"
           /\ \A j \in Keys \ {call[c].key} : QuietRow(ops[j], ops'[j])
           /\ call' = [call EXCEPT ![c].pc = "dispatch"]
           /\ \A j \in Keys \ {call[c].key} :
                Answered(ops'[j]) => Answered(ops[j])
  <2> SUFFICES ASSUME NEW k \in Keys PROVE KeyInv(k)'
    BY DEF SpendInv
  <2>1. KeyInv(k)
    BY DEF SpendInv
  <2>2. /\ call'[c].pc = "dispatch" /\ call'[c].key = call[c].key
        /\ \A d \in Callers \ {c} : call'[d] = call[d]
    BY <1>3 DEF TypeOK, Call
  <2>3. CASE k = call[c].key
    BY <1>1, <1>3, <2>1, <2>2, <2>3 DEF KeyInv, Unspent, NoSender, Sending, Answered, Settled
  <2>4. CASE k # call[c].key
    BY <1>1, <1>3, <2>1, <2>2, <2>4
       DEF KeyInv, Unspent, NoSender, Sending, Answered, Settled, QuietRow
  <2>5. QED
    BY <2>3, <2>4
<1>4. \A j \in Keys \ {call[c].key} :
        Answered(ops'[j]) => Answered(ops[j])
  <2>1. \A j \in Keys \ {call[c].key} :
          ops'[j] = ops[j] \/ ops'[j] = expirePendingReset(Keys)[j]
    BY ExpireIsQuiet DEF Prepare
  <2>2. QED
    BY <2>1, ExpireIsQuiet DEF Answered, Settled
<1>5. QED
  BY <1>2, <1>3, <1>4, PrepareRows DEF Return

LEMMA SpendStep ==
    ASSUME TypeOK, SpendInv, [Next]_vars
    PROVE  SpendInv'
  BY NextIsQuietOrPrepare, SilentSteps, NothingSentStep, DispatchSpends, AnswerSpends,
     LandSpends, PrepareSpends

LEMMA SpendIsInvariant == Spec => []SpendInv
<1>1. Init => SpendInv
  BY DEF Init, SpendInv, KeyInv, Unspent, NoSender, Sending, Idle, NoOperation, Answered, Settled
<1>2. QED
  BY <1>1, TypeCorrect, SpendStep, PTL DEF Spec

\* A key spends at most one credit, for any number of handlers, retries,
\* crashes and expired leases.
THEOREM SpentOncePerKey == Spec => []OncePerKey
<1>1. SpendInv => OncePerKey
  BY DEF SpendInv, KeyInv, OncePerKey
<1>2. QED
  BY <1>1, SpendIsInvariant, PTL

\* Once its dispatch has settled a row, no request for the key leaves again.
THEOREM AnsweredRowsSendNoMore == Spec => AnsweredSendsNoMore
<1> DEFINE SendsNoMore ==
      \A k \in Keys : Answered(ops[k]) /\ k \in flying' => k \in flying
<1>1. ASSUME TypeOK, SpendInv, [Next]_vars
      PROVE  SendsNoMore
  <2> SUFFICES ASSUME NEW k \in Keys, Answered(ops[k]), k \in flying', k \notin flying
               PROVE  FALSE
    OBVIOUS
  <2>1. ~NothingSent
    BY DEF NothingSent
  <2>2. PICK c \in Callers : Dispatch(c)
    BY <1>1, <2>1, NextIsQuietOrPrepare, SilentSteps DEF Answer, Land, Prepare
  <2>3. KeyInv(k) /\ call[c].key = k
    BY <1>1, <2>2 DEF Dispatch, SpendInv
  <2>4. QED
    BY <2>2, <2>3 DEF Dispatch, KeyInv, NoSender, Sending
<1>2. QED
  BY <1>1, TypeCorrect, SpendIsInvariant, PTL DEF Spec, AnsweredSendsNoMore
=============================================================================
