---------------------------- MODULE TokenRefresh ----------------------------
(***************************************************************************)
(* Refreshing the OAuth credential of one account: the token manager of    *)
(* the gateway (internal/adapter/oauthrefresh/manager.go and its twin in   *)
(* internal/adapter/codex/auth.go), the credential endpoint of the control *)
(* plane and the snapshot the gateway polls.                               *)
(*                                                                         *)
(* The provider rotates refresh tokens: a credential is the generation of  *)
(* a grant (an operator's login), and only the newest generation of a      *)
(* grant can be exchanged, for the next one.                               *)
(***************************************************************************)
EXTENDS Integers, FiniteSets

CONSTANTS
    Requests,   \* goroutines that need the account's access token
    NoRequest,
    MaxGrant,   \* bound: logins of the operator after the first
    MaxGen,     \* bound: generations of the first grant, one fewer of each later one
    MaxRetries, \* attempts of the persist retry loop: 6 in the code
    Faults      \* what may go wrong, a subset of FaultKinds

FaultKinds ==
    {"transient",    \* the control plane does not take a persist
     "lost_answer",  \* it takes it and the answer is lost
     "cancel",       \* the leader's client leaves during the exchange
     "restart"}      \* the gateway restarts

ASSUME BoundAssumption ==
    /\ MaxGen \in Nat /\ MaxGrant \in 0..MaxGen /\ MaxRetries \in Nat \ {0}
    /\ NoRequest \notin Requests /\ Faults \subseteq FaultKinds

Credential == [grant : 0..MaxGrant, gen : 0..MaxGen]

\* Every revision but the first stores a new generation or a new grant.
MaxRev == 1 + (MaxGrant + 1) * MaxGen + MaxGrant
Revisions == 1..MaxRev

VARIABLES
    issued,    \* the provider: the newest generation of each grant
    login,     \* the operator's newest grant
    stored,    \* the control plane's credential and its revision
    snapshot,  \* the credential and revision of the adopted snapshot
    st,        \* Manager.creds of the account
    calls,     \* Manager.calls: the leader of the refresh of each revision
    retries,   \* Manager.retries: the persist retry loop of each revision
    req        \* the goroutines in AccessToken

vars == <<issued, login, stored, snapshot, st, calls, retries, req>>

Versioned == [cred : Credential, rev : Revisions]
First == [grant |-> 0, gen |-> 0]
NextGen(c) == [c EXCEPT !.gen = @ + 1]

NoState == [known |-> FALSE, cred |-> First, rev |-> 1, degraded |-> FALSE]
NoRetry == [left |-> 0, fresh |-> First, saved |-> FALSE]

Idle == [pc |-> "idle", view |-> [cred |-> First, rev |-> 1], expected |-> 1,
         fresh |-> First, rev |-> 1, on |-> NoRequest]

Init ==
    /\ issued = [g \in 0..MaxGrant |-> 0]
    /\ login = 0
    /\ stored = [cred |-> First, rev |-> 1]
    /\ snapshot = stored
    /\ st = NoState
    /\ calls = [v \in Revisions |-> NoRequest]
    /\ retries = [v \in Revisions |-> NoRetry]
    /\ req = [r \in Requests |-> Idle]

Put(r, q) == req' = [req EXCEPT ![r] = q]

\* The request carries the account as its plan copied it from the snapshot.
Call(r) ==
    /\ req[r].pc = "idle"
    /\ Put(r, [Idle EXCEPT !.pc = "lookup", !.view = snapshot])
    /\ UNCHANGED <<login, issued, stored, snapshot, st, calls, retries>>

\* A snapshot replaces the local credential only when its revision is newer.
Seen(view) ==
    IF ~st.known \/ view.rev > st.rev
    THEN [known |-> TRUE, cred |-> view.cred, rev |-> view.rev, degraded |-> FALSE]
    ELSE st

\* AccessToken under the lock.  need stands for force or ShouldRefresh: an
\* upstream may reject any token at any time.  The caller gets the credential,
\* waits for the refresh of this revision, or leads it.
Lookup_NoJoin(r, need) ==
    LET s == Seen(req[r].view)
    IN  /\ req[r].pc = "lookup"
        /\ st' = s
        /\ \/ ~need /\ Put(r, Idle) /\ UNCHANGED calls
           \/ /\ need
              /\ calls' = [calls EXCEPT ![s.rev] = r]
              /\ Put(r, [req[r] EXCEPT !.pc = "exchange", !.expected = s.rev,
                                       !.fresh = s.cred, !.view = Idle.view])
        /\ UNCHANGED <<login, issued, stored, snapshot, retries>>
Lookup(r, need) ==
    LET s == Seen(req[r].view)
    IN  /\ req[r].pc = "lookup"
        /\ st' = s
        /\ \/ ~need /\ Put(r, Idle) /\ UNCHANGED calls
           \/ /\ need /\ calls[s.rev] # NoRequest
              /\ Put(r, [Idle EXCEPT !.pc = "waiting", !.on = calls[s.rev]])
              /\ UNCHANGED calls
           \/ /\ need /\ calls[s.rev] = NoRequest
              /\ calls' = [calls EXCEPT ![s.rev] = r]
              /\ Put(r, [req[r] EXCEPT !.pc = "exchange", !.expected = s.rev,
                                       !.fresh = s.cred, !.view = Idle.view])
        /\ UNCHANGED <<login, issued, stored, snapshot, retries>>

\* The provider's answer to the exchange of req[r].fresh, the old credential:
\* a new generation, an error, or an answer that a cancelled leader never reads.
Exchange(r) ==
    LET old == req[r].fresh
        rotates == issued[old.grant] = old.gen /\ old.gen < MaxGen - old.grant
        rotated == [issued EXCEPT ![old.grant] = @ + 1]
    IN  /\ req[r].pc = "exchange"
        /\ \/ /\ rotates /\ issued' = rotated
              /\ Put(r, [req[r] EXCEPT !.pc = "store", !.fresh = NextGen(old)])
           \/ /\ "cancel" \in Faults /\ rotates /\ issued' = rotated
              /\ Put(r, [req[r] EXCEPT !.pc = "finish"])
           \/ issued' = issued /\ Put(r, [req[r] EXCEPT !.pc = "finish"])
        /\ UNCHANGED <<login, stored, snapshot, st, calls, retries>>

\* refreshToken writes the fresh credential over whatever is there now.
Store(r) ==
    /\ req[r].pc = "store"
    /\ st' = [st EXCEPT !.cred = req[r].fresh, !.degraded = FALSE]
    /\ Put(r, [req[r] EXCEPT !.pc = "persist"])
    /\ UNCHANGED <<login, issued, stored, snapshot, calls, retries>>

Accepts_Any(expected) == TRUE
\* PUT credentials: the control plane compares the revision under FOR UPDATE.
Accepts(expected) == stored.rev = expected
Written(fresh) == [cred |-> fresh, rev |-> stored.rev + 1]

Persist(r) ==
    LET q == req[r]
    IN  /\ q.pc = "persist"
        /\ \/ /\ Accepts(q.expected) /\ stored' = Written(q.fresh)
              /\ Put(r, [q EXCEPT !.pc = "saved", !.rev = stored.rev + 1])
           \/ /\ ~Accepts(q.expected) /\ stored' = stored
              /\ Put(r, [q EXCEPT !.pc = "finish"])
           \/ /\ "transient" \in Faults /\ stored' = stored
              /\ Put(r, [q EXCEPT !.pc = "degraded"])
           \/ /\ "lost_answer" \in Faults /\ Accepts(q.expected)
              /\ stored' = Written(q.fresh)
              /\ Put(r, [q EXCEPT !.pc = "degraded"])
        /\ UNCHANGED <<login, issued, snapshot, st, calls, retries>>

Saved(r) ==
    /\ req[r].pc = "saved"
    /\ st' = [known |-> TRUE, cred |-> req[r].fresh, rev |-> req[r].rev,
              degraded |-> FALSE]
    /\ Put(r, [req[r] EXCEPT !.pc = "finish"])
    /\ UNCHANGED <<login, issued, stored, snapshot, calls, retries>>

\* markDegraded and schedulePersistRetry: one retry loop per revision, which
\* keeps the credential it was started with.
Degrade(r) ==
    LET v == req[r].expected
    IN  /\ req[r].pc = "degraded"
        /\ st' = [st EXCEPT !.degraded = TRUE]
        /\ retries' = IF retries[v] # NoRetry THEN retries
                      ELSE [retries EXCEPT ![v] = [left |-> MaxRetries,
                                                   fresh |-> req[r].fresh,
                                                   saved |-> FALSE]]
        /\ Put(r, [req[r] EXCEPT !.pc = "finish"])
        /\ UNCHANGED <<login, issued, stored, snapshot, calls>>

\* The leader forgets the call and closes its channel: every waiter returns
\* with the leader's result, its error included.
Finish_KeepsWaiters(r) ==
    /\ req[r].pc = "finish"
    /\ calls' = [calls EXCEPT ![req[r].expected] = NoRequest]
    /\ Put(r, Idle)
    /\ UNCHANGED <<login, issued, stored, snapshot, st, retries>>
Finish(r) ==
    /\ req[r].pc = "finish"
    /\ calls' = [calls EXCEPT ![req[r].expected] = NoRequest]
    /\ req' = [s \in Requests |->
                 IF s = r \/ (req[s].pc = "waiting" /\ req[s].on = r)
                 THEN Idle ELSE req[s]]
    /\ UNCHANGED <<login, issued, stored, snapshot, st, retries>>

\* One attempt of the retry loop of revision v.
RetryAgain(v) ==
    LET t == retries[v]
    IN  [retries EXCEPT ![v] = IF t.left > 1 THEN [t EXCEPT !.left = t.left - 1] ELSE NoRetry]
RetryPersist(v) ==
    /\ retries[v].left > 0 /\ ~retries[v].saved
    /\ \/ /\ Accepts(v) /\ stored' = Written(retries[v].fresh)
          /\ retries' = [retries EXCEPT ![v].saved = TRUE]
       \/ /\ ~Accepts(v) /\ stored' = stored
          /\ retries' = [retries EXCEPT ![v] = NoRetry]
       \/ /\ "transient" \in Faults /\ stored' = stored
          /\ retries' = RetryAgain(v)
       \/ /\ "lost_answer" \in Faults /\ Accepts(v)
          /\ stored' = Written(retries[v].fresh)
          /\ retries' = RetryAgain(v)
    /\ UNCHANGED <<login, issued, snapshot, st, calls, req>>

RetrySaved(v) ==
    /\ retries[v].saved
    /\ st' = IF st.known /\ st.rev = v /\ st.cred = retries[v].fresh
             THEN [st EXCEPT !.rev = v + 1, !.degraded = FALSE] ELSE st
    /\ retries' = [retries EXCEPT ![v] = NoRetry]
    /\ UNCHANGED <<login, issued, stored, snapshot, calls, req>>

\* The poll loop, or TriggerSnapshotRefresh, adopts what the control plane has.
FetchSnapshot ==
    /\ snapshot # stored
    /\ snapshot' = stored
    /\ UNCHANGED <<login, issued, stored, st, calls, retries, req>>

\* The operator logs in again: a new grant under a new revision.
Reauthorize ==
    /\ login < MaxGrant
    /\ login' = login + 1
    /\ stored' = [cred |-> [grant |-> login + 1, gen |-> 0], rev |-> stored.rev + 1]
    /\ UNCHANGED <<issued, snapshot, st, calls, retries, req>>

\* The gateway restarts and starts from the control plane's snapshot.
Restart ==
    /\ "restart" \in Faults
    /\ st' = NoState
    /\ calls' = [v \in Revisions |-> NoRequest]
    /\ retries' = [v \in Revisions |-> NoRetry]
    /\ req' = [r \in Requests |-> Idle]
    /\ snapshot' = stored
    /\ UNCHANGED <<login, issued, stored>>

Step(r) ==
    \/ \E need \in BOOLEAN : Lookup(r, need)
    \/ Exchange(r) \/ Store(r) \/ Persist(r) \/ Saved(r) \/ Degrade(r) \/ Finish(r)
RetryStep(v) == RetryPersist(v) \/ RetrySaved(v)

Next ==
    \/ \E r \in Requests : Call(r) \/ Step(r)
    \/ \E v \in Revisions : RetryStep(v)
    \/ FetchSnapshot
    \/ Reauthorize
    \/ Restart

Spec == Init /\ [][Next]_vars

\* Goroutines run and calls to the control plane time out.  The exchange has
\* no timeout of its own: the provider need not answer.
Fairness ==
    /\ \A r \in Requests : WF_vars(req[r].pc # "exchange" /\ Step(r))
    /\ \A v \in Revisions : WF_vars(RetryStep(v))
FairSpec == Spec /\ Fairness

-----------------------------------------------------------------------------
(* Properties *)

State == [known : BOOLEAN, cred : Credential, rev : Revisions, degraded : BOOLEAN]
Retry == [left : 0..MaxRetries, fresh : Credential, saved : BOOLEAN]
Request ==
    [pc : {"idle", "lookup", "waiting", "exchange", "store", "persist", "saved",
           "degraded", "finish"},
     view : Versioned, expected : Revisions, fresh : Credential, rev : Revisions,
     on : Requests \cup {NoRequest}]

\* Every variable keeps its type; in particular no revision leaves the range
\* that the number of generations allows.
TypeOK ==
    /\ issued \in [0..MaxGrant -> 0..MaxGen] /\ login \in 0..MaxGrant
    /\ stored \in Versioned /\ snapshot \in Versioned
    /\ st \in State
    /\ calls \in [Revisions -> Requests \cup {NoRequest}]
    /\ retries \in [Revisions -> Retry]
    /\ req \in [Requests -> Request]

\* At most one refresh of a revision runs at a time, from the exchange to the
\* moment its leader wakes the waiters: the promise of the calls map, over
\* cancelled leaders, failed persists, restarts and newer revisions
\* (manager.go, AccessToken).
Leading == {"exchange", "store", "persist", "saved", "degraded", "finish"}
OneLeader ==
    \A r, s \in Requests :
      r # s /\ req[r].pc \in Leading /\ req[s].pc \in Leading
        => req[r].expected # req[s].expected

\* The control plane never replaces a generation of a grant by an older one:
\* retry loops and slow leaders are stopped by the revision they expect
\* (manager.go, persistRetryLoop; credentials/route.ts).
NeverOlder ==
    [][stored'.cred.grant = stored.cred.grant
         => stored'.cred.gen >= stored.cred.gen]_vars

\* Every caller of AccessToken returns, unless an exchange is never answered:
\* a waiter outlives no leader (manager.go, AccessToken: done is closed on
\* every way out of refreshToken).
CallersReturn ==
    \/ \E r \in Requests : <>[](req[r].pc = "exchange")
    \/ \A r \in Requests : req[r].pc # "idle" ~> req[r].pc = "idle"
=============================================================================
