----------------------------- MODULE QuotaReset -----------------------------
(***************************************************************************)
(* Spending a quota-reset credit of one Codex account: the durable         *)
(* operation of the control plane (control-plane/lib/codex/quota.ts), the  *)
(* dispatch to the gateway (provider-operations.ts, internal/operations)   *)
(* and the provider that takes the credit (internal/adapter/codex/quota.go *)
(* sends the request).                                                     *)
(*                                                                         *)
(* An operation is a row of provider_operations, one per idempotency key.  *)
(* Each database transaction, and each call to the provider, is a step.    *)
(* A transaction that throws is rolled back, what it expired included.     *)
(***************************************************************************)
EXTENDS Integers, FiniteSets

CONSTANTS
    Keys,       \* idempotency keys
    Callers,    \* handlers of the control plane
    Credits,    \* reset credits the account starts with
    MaxWindow,  \* bound: quota windows
    Others      \* somebody else uses the account: the official client, expiry

ASSUME QuotaAssumption ==
    /\ Credits \in Nat /\ MaxWindow \in Nat \ {0} /\ Others \in BOOLEAN
    /\ Keys # {}

VARIABLES
    ops,    \* the rows, by key
    call,   \* what each handler is doing
    flying, \* the keys whose consume request may still reach the provider
    quota,  \* the provider: credits, quota window, whether it is used up
    spent   \* the provider: the credits it took for each key

vars == <<ops, call, flying, quota, spent>>

Usage == [count : 0..Credits, resetAt : 1..MaxWindow, used : BOOLEAN]
NoUsage == [count |-> 0, resetAt |-> 1, used |-> FALSE]

Operation ==
    [status : {"none", "pending", "unknown", "succeeded", "failed"},
     leased : BOOLEAN,  \* lease_expires_at lies ahead
     source : {"dispatch", "reconciled", "manual"},
     preflight : Usage]
NoOperation == [status |-> "none", leased |-> FALSE, source |-> "dispatch",
                preflight |-> NoUsage]

Active(op) == op.status \in {"pending", "unknown"}
Settled(op) == op.status \in {"succeeded", "failed"}
\* Settled by the answer to its own dispatch.
Answered(op) == Settled(op) /\ op.source = "dispatch"

Call ==
    [pc : {"idle", "usage", "credits", "prepare", "dispatch", "waiting",
           "look", "compare", "conclude"},
     key : Keys, view : Usage]
Idle == [pc |-> "idle", key |-> CHOOSE k \in Keys : TRUE, view |-> NoUsage]

Init ==
    /\ ops = [k \in Keys |-> NoOperation]
    /\ call = [c \in Callers |-> Idle]
    /\ flying = {}
    /\ quota = [count |-> Credits, resetAt |-> 1, used |-> TRUE]
    /\ spent = [k \in Keys |-> 0]

Become(c, pc) == call' = [call EXCEPT ![c].pc = pc]
Return(c) == call' = [call EXCEPT ![c] = Idle]

-----------------------------------------------------------------------------
(* The rows *)

\* expirePendingReset: a pending row whose lease is over becomes unknown.
expirePendingReset(keys) ==
    [k \in Keys |->
       IF k \in keys /\ ops[k].status = "pending" /\ ~ops[k].leased
       THEN [ops[k] EXCEPT !.status = "unknown"] ELSE ops[k]]

AfterDispatch_Unguarded(op, status) ==
    [op EXCEPT !.status = status, !.leased = FALSE]
AfterDispatch_KeepsLease(op, status) ==
    IF op.status = "pending" THEN [op EXCEPT !.status = status] ELSE op
\* updateResetAfterDispatch: WHERE status='pending'.  A late answer throws and
\* leaves the row alone; so does the second attempt of the catch block.
AfterDispatch(op, status) ==
    IF op.status = "pending"
    THEN [op EXCEPT !.status = status, !.leased = FALSE] ELSE op

\* resetWasConsumed: fewer credits than before, or a newer and emptier window.
resetWasConsumed(before, after) ==
    \/ after.count < before.count
    \/ after.resetAt > before.resetAt /\ before.used /\ ~after.used

-----------------------------------------------------------------------------
(* POST quota/reset: resetCodexQuota *)

\* The row of this key, if there is one, is the answer.
CallReset(c, k) ==
    LET seen == expirePendingReset({k})
    IN  /\ call[c].pc = "idle"
        /\ ops' = seen
        /\ call' = IF seen[k].status = "none"
                   THEN [call EXCEPT ![c] = [Idle EXCEPT !.pc = "usage", !.key = k]]
                   ELSE call
        /\ UNCHANGED <<flying, quota, spent>>

\* The live preflight: two reads, neither under the account's lock.
ReadUsage(c) ==
    /\ call[c].pc = "usage"
    /\ \/ call' = [call EXCEPT ![c].pc = "credits", ![c].view.used = quota.used,
                               ![c].view.resetAt = quota.resetAt]
       \/ Return(c)
    /\ UNCHANGED <<ops, flying, quota, spent>>

requireAvailableCredit == quota.count > 0

\* A read that fails, or that shows no credit, ends the call.
ReadCredits(c) ==
    /\ call[c].pc = "credits"
    /\ \/ /\ requireAvailableCredit
          /\ call' = [call EXCEPT ![c].pc = "prepare", ![c].view.count = quota.count]
       \/ Return(c)
    /\ UNCHANGED <<ops, flying, quota, spent>>

Blocked_NotUnknown(rows) == \E k \in Keys : rows[k].status = "pending"
Blocked(rows) == \E k \in Keys : Active(rows[k])

\* Under the advisory lock of the account: the row of a concurrent call with
\* the same key is returned without a dispatch, an active row of another key
\* is a 409, otherwise the pending row is written before anything is sent.
Prepare_Resumes(c) ==
    LET seen == expirePendingReset(Keys)
        k == call[c].key
    IN  /\ call[c].pc = "prepare"
        /\ \/ /\ Settled(seen[k])
              /\ ops' = seen /\ Return(c)
           \/ /\ ~Settled(seen[k]) /\ \E j \in Keys \ {k} : Active(seen[j])
              /\ ops' = ops /\ Return(c)
           \/ /\ ~Settled(seen[k]) /\ \A j \in Keys \ {k} : ~Active(seen[j])
              /\ ops' = [seen EXCEPT ![k] = [NoOperation EXCEPT
                           !.status = "pending", !.leased = TRUE,
                           !.preflight = call[c].view]]
              /\ Become(c, "dispatch")
        /\ UNCHANGED <<flying, quota, spent>>
Prepare(c) ==
    LET seen == expirePendingReset(Keys)
        k == call[c].key
    IN  /\ call[c].pc = "prepare"
        /\ \/ /\ seen[k].status # "none"
              /\ ops' = seen /\ Return(c)
           \/ /\ seen[k].status = "none" /\ Blocked(seen)
              /\ ops' = ops /\ Return(c)
           \/ /\ seen[k].status = "none" /\ ~Blocked(seen)
              /\ ops' = [seen EXCEPT ![k] = [NoOperation EXCEPT
                           !.status = "pending", !.leased = TRUE,
                           !.preflight = call[c].view]]
              /\ Become(c, "dispatch")
        /\ UNCHANGED <<flying, quota, spent>>

\* consume_reset_credit leaves for the provider.
Dispatch(c) ==
    /\ call[c].pc = "dispatch"
    /\ flying' = flying \cup {call[c].key}
    /\ Become(c, "waiting")
    /\ UNCHANGED <<ops, quota, spent>>

\* The gateway may refuse an operation conclusively before it sends anything:
\* a request it finds invalid, a credential that changed under it.  Its other
\* refusals (authorization, decoding, unknown adapter) are inconclusive.
GatewayRefuses(c) == call[c].pc = "dispatch"

\* What the handler may learn of the request: the gateway's 2xx once a credit
\* was taken; a refusal of the gateway; any error status of the provider or of
\* what stands before it, which says nothing about the credit, taken, not taken
\* or yet to be taken; or anything else at any time (a timeout, a lost answer).
Outcomes(c) ==
    LET k == call[c].key
        sent == call[c].pc = "waiting"
    IN  {"unknown"}
        \cup {o \in {"succeeded"} : sent /\ k \notin flying /\ spent[k] > 0}
        \cup {o \in {"failed"} : sent \/ GatewayRefuses(c)}

conclusiveResetFailure(outcome) == outcome = "failed"

Answer(c, outcome) ==
    LET k == call[c].key
        status == IF outcome = "succeeded" THEN "succeeded"
                  ELSE IF conclusiveResetFailure(outcome) THEN "failed" ELSE "unknown"
    IN  /\ call[c].pc \in {"dispatch", "waiting"}
        /\ outcome \in Outcomes(c)
        /\ ops' = [ops EXCEPT ![k] = AfterDispatch(@, status)]
        /\ Return(c)
        /\ UNCHANGED <<flying, quota, spent>>

-----------------------------------------------------------------------------
(* Reading, reconciling and resolving *)

GetQuota_ReadsOnly == UNCHANGED vars
\* GET quota expires the lease of whatever is pending.
GetQuota ==
    /\ ops' = expirePendingReset(Keys)
    /\ UNCHANGED <<call, flying, quota, spent>>

\* reconcileCodexQuotaReset: only an unknown row is worth a look upstream.
Reconcile(c, k) ==
    LET seen == expirePendingReset(Keys)
    IN  /\ call[c].pc = "idle"
        /\ seen[k].status = "unknown"
        /\ ops' = seen
        /\ call' = [call EXCEPT ![c] = [Idle EXCEPT !.pc = "look", !.key = k]]
        /\ UNCHANGED <<flying, quota, spent>>

LookAtUsage(c) ==
    /\ call[c].pc = "look"
    /\ \/ call' = [call EXCEPT ![c].pc = "compare", ![c].view.used = quota.used,
                               ![c].view.resetAt = quota.resetAt]
       \/ Return(c)
    /\ UNCHANGED <<ops, flying, quota, spent>>

LookAtCredits(c) ==
    /\ call[c].pc = "compare"
    /\ \/ call' = [call EXCEPT ![c].pc = "conclude", ![c].view.count = quota.count]
       \/ Return(c)
    /\ UNCHANGED <<ops, flying, quota, spent>>

\* WHERE status='unknown': inconclusive evidence leaves the row unknown.
Conclude(c) ==
    LET k == call[c].key
        consumed == resetWasConsumed(ops[k].preflight, call[c].view)
    IN  /\ call[c].pc = "conclude"
        /\ ops' = IF consumed /\ ops[k].status = "unknown"
                  THEN [ops EXCEPT ![k].status = "succeeded", ![k].source = "reconciled"]
                  ELSE ops
        /\ Return(c)
        /\ UNCHANGED <<flying, quota, spent>>

\* resolveCodexQuotaReset: the operator decides an unknown row.
Resolve(k, resolution) ==
    LET seen == expirePendingReset(Keys)
    IN  /\ seen[k].status = "unknown"
        /\ ops' = [seen EXCEPT ![k].status = resolution, ![k].source = "manual"]
        /\ UNCHANGED <<call, flying, quota, spent>>

-----------------------------------------------------------------------------
(* The provider, the clock and the process *)

NewWindow(u) ==
    [u EXCEPT !.used = FALSE,
              !.resetAt = IF @ < MaxWindow THEN @ + 1 ELSE @]

\* A consume request reaches the provider, which takes a credit if there is
\* one and refuses otherwise, or refuses for a reason of its own.
Land(k) ==
    /\ k \in flying
    /\ flying' = flying \ {k}
    /\ \/ /\ quota.count > 0
          /\ quota' = NewWindow([quota EXCEPT !.count = @ - 1])
          /\ spent' = [spent EXCEPT ![k] = @ + 1]
       \/ UNCHANGED <<quota, spent>>
    /\ UNCHANGED <<ops, call>>

\* The quota fills up with traffic.
UseQuota ==
    /\ ~quota.used
    /\ quota' = [quota EXCEPT !.used = TRUE]
    /\ UNCHANGED <<ops, call, flying, spent>>

\* The window ends by itself, or a credit goes without this system's doing.
Elsewhere ==
    /\ Others
    /\ \/ quota.resetAt < MaxWindow /\ quota' = NewWindow(quota)
       \/ quota.count > 0 /\ quota' = [quota EXCEPT !.count = @ - 1]
    /\ UNCHANGED <<ops, call, flying, spent>>

\* Two minutes pass.
LeaseEnds(k) ==
    /\ ops[k].leased
    /\ ops' = [ops EXCEPT ![k].leased = FALSE]
    /\ UNCHANGED <<call, flying, quota, spent>>

\* The control plane restarts; what it had sent is still on its way.
Crash ==
    /\ call' = [c \in Callers |-> Idle]
    /\ UNCHANGED <<ops, flying, quota, spent>>

Step(c) ==
    \/ ReadUsage(c) \/ ReadCredits(c) \/ Prepare(c) \/ Dispatch(c)
    \/ \E outcome \in {"succeeded", "failed", "unknown"} : Answer(c, outcome)
    \/ LookAtUsage(c) \/ LookAtCredits(c) \/ Conclude(c)

Next ==
    \/ \E c \in Callers :
         \/ \E k \in Keys : CallReset(c, k) \/ Reconcile(c, k)
         \/ Step(c)
    \/ GetQuota
    \/ \E k \in Keys :
         \/ \E resolution \in {"succeeded", "failed"} : Resolve(k, resolution)
         \/ Land(k) \/ LeaseEnds(k)
    \/ UseQuota \/ Elsewhere \/ Crash

Spec == Init /\ [][Next]_vars

\* Time passes, and the dashboard polls the quota of the account.
Fairness == WF_vars(GetQuota) /\ \A k \in Keys : WF_vars(LeaseEnds(k))
FairSpec == Spec /\ Fairness

-----------------------------------------------------------------------------
(* Properties *)

\* Every variable keeps its type, and only a pending row has a lease.
TypeOK ==
    /\ ops \in [Keys -> Operation]
    /\ \A k \in Keys : ops[k].leased => ops[k].status = "pending"
    /\ call \in [Callers -> Call]
    /\ flying \subseteq Keys
    /\ quota \in Usage
    /\ spent \in [Keys -> Nat]

\* At most one reset of the account is pending or unknown: the row a new reset
\* writes never meets the unique index provider_operations_one_active_reset
\* (quota.ts, resetCodexQuota; 003_codex_provider.sql).
OneActive == \A j, k \in Keys : Active(ops[j]) /\ Active(ops[k]) => j = k

\* A key spends at most one credit, whatever its caller retries, and whatever
\* crashes or expires between the row and the answer (quota.ts,
\* resetCodexQuota).
OncePerKey == \A k \in Keys : spent[k] <= 1

\* A settled row is never changed again: a late answer, a slow reconciliation
\* and the operator do not overrule each other (the WHERE clauses of quota.ts).
SettledStays == [][\A k \in Keys : Settled(ops[k]) => ops'[k] = ops[k]]_vars

\* Once the answer to a dispatch has settled a row, no request for its key
\* leaves again, whoever retries it and however many handlers raced for the
\* row: only what is already on the wire can still spend (quota.ts,
\* resetCodexQuota).
AnsweredSendsNoMore ==
    [][\A k \in Keys : Answered(ops[k]) /\ k \in flying' => k \in flying]_vars

\* No row stays pending, although its process may have crashed: the poll of
\* the dashboard finds the lease over.
PendingEnds ==
    \A k \in Keys : ops[k].status = "pending" ~> ops[k].status # "pending"
=============================================================================
