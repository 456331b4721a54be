---------------------------- MODULE SignInProofs ----------------------------
(***************************************************************************)
(* Proofs about SignIn, for any number of logins, handlers, people, names, *)
(* files and writes.                                                       *)
(***************************************************************************)
EXTENDS SignIn, FiniteSetTheorems, TLAPS

-----------------------------------------------------------------------------
(* The inductive invariants. *)

\* What a handler knows at each of its program points.
HandlerOK(q) ==
  /\ q.pc = "idle" => q.login = None
  /\ q.pc = "exchange" => q.login \in Logins /\ q.using \in Logins /\ q.person = None
  /\ q.pc = "parse" => q.rest # <<>> /\ q.login = None
  /\ q.pc = "look" => q.person \in People
  /\ q.pc = "write" => q.person \in People /\ q.name \in People \union Labels
  /\ q.pc \in {"ask", "update"} => q.login = None
  /\ q.pc = "update" /\ q.answer = "complete" => q.person \in People
HandlersOK == \A h \in Handlers : HandlerOK(req[h])

\* A handler goes to the provider with a code the provider has issued.
CodesIssued == \A h \in Handlers : req[h].pc = "exchange" => code[req[h].using] # None

\* Secrets are numbered by the writes, revisions never outrun them, and the
\* gateway works with no account that is gone and no revision still to come.
RowOK(n) ==
  /\ accounts[n] # None => /\ accounts[n].rev <= writes /\ accounts[n].secret <= writes
                           /\ accounts[n].login <= accounts[n].secret
  /\ gw[n] # None => /\ accounts[n] # None /\ gw[n].secret <= writes
                     /\ gw[n].rev <= accounts[n].rev
RowsOK == \A n \in Names : RowOK(n)

BaseInv == TypeOK /\ HandlersOK /\ CodesIssued /\ RowsOK

\* A login is with nobody as long as its session can be consumed, with at most
\* one handler afterwards, and with nobody once it is written.
OnceInv ==
  \A l \in Logins :
    /\ session[l].st # "gone" => wrote[l] = 0 /\ \A h \in Handlers : req[h].login # l
    /\ wrote[l] \in {0, 1}
    /\ wrote[l] = 1 => \A h \in Handlers : req[h].login # l
    /\ \A h, i \in Handlers : req[h].login = l /\ req[i].login = l => h = i

\* As long as no poll outlived its lease, only the holder of the lease polls,
\* and none does once the session has expired.
LeaseInv ==
  /\ device.ttl /\ (device.over => device.st = "gone")
  /\ \A h \in Handlers : req[h].leased => req[h].pc \in {"ask", "update"}
  /\ device.over => \A h \in Handlers : ~req[h].leased
  /\ modal = "off" => ~device.over /\ \A h \in Handlers : req[h].pc \notin {"ask", "update"}
  /\ ~overrun =>
       /\ \A h \in Handlers : req[h].leased => device.lease
       /\ \A h, i \in Handlers : req[h].leased /\ req[i].leased => h = i
       /\ ~device.over => \A h \in Handlers : req[h].pc \in {"ask", "update"} => req[h].leased

-----------------------------------------------------------------------------
(* What handlers do to their requests. *)

LEMMA IdleOK == Idle \in Request /\ HandlerOK(Idle) /\ ~Idle.leased
  BY DEF Idle, Request, HandlerOK, Batch

\* One handler moves on and codes are only added to.
LEMMA OneMoves ==
  ASSUME BaseInv, NEW h \in Handlers, NEW q \in Request, HandlerOK(q),
         req' = [req EXCEPT ![h] = q],
         \A l \in Logins : code[l] # None => code'[l] # None,
         q.pc = "exchange" => code[q.using] # None
  PROVE  req' \in [Handlers -> Request] /\ HandlersOK' /\ CodesIssued'
<1>1. req \in [Handlers -> Request]
  BY DEF BaseInv, TypeOK
<1>2. req' \in [Handlers -> Request]
  BY <1>1
<1>3. \A i \in Handlers : req'[i] = IF i = h THEN q ELSE req[i]
  BY <1>1
<1>4. HandlersOK'
  BY <1>3 DEF BaseInv, HandlersOK, HandlerOK
<1>5. \A i \in Handlers : req'[i].pc = "exchange" =>
          code[req'[i].using] # None /\ req'[i].using \in Logins
  BY <1>3 DEF BaseInv, HandlersOK, HandlerOK, CodesIssued
<1>6. QED
  BY <1>2, <1>4, <1>5 DEF CodesIssued

\* Timers change who listens and who holds a lease, and nothing else.
Retimed(i) ==
  /\ req'[i] \in Request /\ req'[i].pc = req[i].pc /\ req'[i].login = req[i].login
  /\ req'[i].using = req[i].using /\ req'[i].person = req[i].person
  /\ req'[i].name = req[i].name /\ req'[i].rest = req[i].rest
  /\ req'[i].answer = req[i].answer

LEMMA AllMove ==
  ASSUME BaseInv, code' = code, DOMAIN req' = Handlers, req' = [i \in Handlers |-> req'[i]],
         \A i \in Handlers : Retimed(i)
  PROVE  req' \in [Handlers -> Request] /\ HandlersOK' /\ CodesIssued'
<1>1. req' \in [Handlers -> Request]
  BY DEF Retimed
<1>2. HandlersOK'
  <2>1. ASSUME NEW i \in Handlers PROVE HandlerOK(req'[i])
    <3>1. HandlerOK(req[i]) /\ Retimed(i)
      BY DEF BaseInv, HandlersOK
    <3>2. QED
      BY ONLY <3>1 DEF Retimed, HandlerOK
  <2>2. QED
    BY <2>1 DEF HandlersOK
<1>3. CodesIssued'
  BY DEF BaseInv, CodesIssued, Retimed
<1>4. QED
  BY <1>1, <1>2, <1>3

LEMMA SameRequests ==
  ASSUME BaseInv, UNCHANGED req,
         \A l \in Logins : code[l] # None => code'[l] # None
  PROVE  req' \in [Handlers -> Request] /\ HandlersOK' /\ CodesIssued'
  BY DEF BaseInv, TypeOK, HandlersOK, CodesIssued, HandlerOK

LEMMA SameRows ==
  ASSUME BaseInv, UNCHANGED rows
  PROVE  /\ accounts' \in [Names -> Row \union {None}]
         /\ gw' \in [Names -> Credential \union {None}]
         /\ writes' \in 0..MaxWrites /\ wrote' \in [Logins -> Nat]
         /\ RowsOK'
  BY DEF BaseInv, TypeOK, RowsOK, RowOK, rows

LEMMA SameBrowser ==
  ASSUME BaseInv, UNCHANGED browser
  PROVE  /\ session' \in [Logins -> Session] /\ code' \in [Logins -> Code \union {None}]
         /\ \A l \in Logins : code[l] # None => code'[l] # None
  BY DEF BaseInv, TypeOK, browser

LEMMA SameFlow ==
  ASSUME BaseInv, UNCHANGED flow
  PROVE  /\ device' \in Device
         /\ grant' \in People \union {"none", "waiting", "denied", "lapsed", "spent"}
         /\ modal' \in {"off", "waiting", "polling", "complete", "expired", "denied", "closed"}
         /\ overrun' \in BOOLEAN
  BY DEF BaseInv, TypeOK, flow

\* The request of the handler that a callback sends to the provider.
Sent(l, c) == [Idle EXCEPT !.pc = "exchange", !.login = l, !.using = c,
                           !.name = session[l].label, !.target = session[l].target]

LEMMA SentOK ==
  ASSUME BaseInv, NEW l \in Logins, NEW c \in Logins, code[c] # None
  PROVE  /\ Sent(l, c) \in Request /\ HandlerOK(Sent(l, c))
         /\ Sent(l, c).pc = "exchange" /\ Sent(l, c).login = l /\ Sent(l, c).using = c
         /\ Sent(l, c).person = None /\ ~Sent(l, c).leased
<1>1. session[l] \in Session
  BY DEF BaseInv, TypeOK
<1>2. /\ session[l].label \in Labels \union {None}
      /\ session[l].target \in People \union Labels \union {None}
  BY <1>1 DEF Session
<1>3. Sent(l, c) \in Request
  BY <1>2, IdleOK DEF Sent, Request
<1>4. QED
  BY <1>3 DEF Sent, Idle, HandlerOK

-----------------------------------------------------------------------------
(* The base invariant is inductive. *)

LEMMA BaseInit == Init => BaseInv
<1> SUFFICES ASSUME Init PROVE BaseInv
  OBVIOUS
<1>1. TypeOK
  <2>1. [Gone EXCEPT !.st = "new"] \in Session
    BY DEF Gone, Session
  <2>2. Closed \in Device
    BY DEF Closed, Device
  <2>3. 0 \in 0..MaxWrites
    BY SignInAssumption
  <2>4. QED
    BY <2>1, <2>2, <2>3, IdleOK DEF Init, TypeOK
<1>2. HandlersOK /\ CodesIssued
  BY IdleOK DEF Init, HandlersOK, CodesIssued, Idle
<1>3. RowsOK
  BY DEF Init, RowsOK, RowOK
<1>4. QED
  BY <1>1, <1>2, <1>3 DEF BaseInv

LEMMA BaseLogin ==
  ASSUME BaseInv, NEW l \in Logins, Login(l)
  PROVE  BaseInv'
<1> USE DEF BaseInv
<1>1. UNCHANGED <<flow, req, rows>>
  BY DEF Login, StartLogin, SessionExpires, Approve
<1>2. session' \in [Logins -> Session]
  <2>1. CASE StartLogin(l)
    <3>1. PICK s \in IF l \in ClaudeLogins THEN ClaudeSessions ELSE CodexSessions :
            session' = [session EXCEPT ![l] = s]
      BY <2>1 DEF StartLogin
    <3>2. s \in Session
      BY <3>1 DEF ClaudeSessions, CodexSessions, Session
    <3>3. QED
      BY <3>1, <3>2 DEF TypeOK
  <2>2. CASE SessionExpires(l)
    BY <2>2 DEF SessionExpires, TypeOK, Gone, Session
  <2>3. CASE Approve(l)
    BY <2>3 DEF Approve, TypeOK
  <2>4. QED
    BY <2>1, <2>2, <2>3 DEF Login
<1>3. /\ code' \in [Logins -> Code \union {None}]
      /\ \A m \in Logins : code[m] # None => code'[m] # None
  <2>1. CASE UNCHANGED code
    BY <2>1 DEF TypeOK
  <2>2. CASE Approve(l)
    BY <2>2 DEF Approve, TypeOK, Code
  <2>3. QED
    BY <2>1, <2>2 DEF Login, StartLogin, SessionExpires
<1>4. QED
  BY <1>1, <1>2, <1>3, SameFlow, SameRows, SameRequests DEF TypeOK

LEMMA BaseCallback ==
  ASSUME BaseInv, NEW h \in Handlers, NEW l \in Logins, NEW c \in Logins \union {None},
         CodexCallback(h, l, c) \/ ClaudeCallback(h, l, c)
  PROVE  BaseInv'
<1> USE DEF BaseInv
<1>1. UNCHANGED <<code, flow, rows>> /\ session' = [session EXCEPT ![l] = Gone]
  BY DEF CodexCallback, ClaudeCallback, consumeJsonOnce
<1>2. session' \in [Logins -> Session] /\ code' \in [Logins -> Code \union {None}]
  BY <1>1 DEF TypeOK, Gone, Session
<1>3. UNCHANGED req \/ (c \in Logins /\ code[c] # None /\ req' = [req EXCEPT ![h] = Sent(l, c)])
  BY DEF CodexCallback, ClaudeCallback, Redeem, Sent
<1>4. req' \in [Handlers -> Request] /\ HandlersOK' /\ CodesIssued'
  <2>1. CASE UNCHANGED req
    BY <1>1, <2>1, SameRequests
  <2>2. CASE c \in Logins /\ code[c] # None /\ req' = [req EXCEPT ![h] = Sent(l, c)]
    <3>1. code' = code
      BY <1>1
    <3>2. /\ Sent(l, c) \in Request /\ HandlerOK(Sent(l, c))
          /\ Sent(l, c).pc = "exchange" => code[Sent(l, c).using] # None
      BY <2>2, SentOK
    <3>3. QED
      BY <2>2, <3>1, <3>2, OneMoves
  <2>3. QED
    BY <1>3, <2>1, <2>2
<1>5. QED
  BY <1>1, <1>2, <1>4, SameFlow, SameRows DEF TypeOK

\* What the answer of the provider makes of the request.
Redeemed(h) == [req[h] EXCEPT !.pc = "look", !.person = code[req[h].using].person,
                              !.of = {code[req[h].using].person}]

LEMMA RedeemedOK ==
  ASSUME BaseInv, NEW h \in Handlers, req[h].pc = "exchange"
  PROVE  /\ req[h].using \in Logins /\ req[h].login \in Logins
         /\ code[req[h].using] \in Code
         /\ Redeemed(h) \in Request /\ HandlerOK(Redeemed(h))
         /\ Redeemed(h).pc = "look" /\ Redeemed(h).login = req[h].login
         /\ Redeemed(h).leased = req[h].leased
         /\ Redeemed(h).person = code[req[h].using].person
<1>1. req[h] \in Request /\ req[h].using \in Logins /\ req[h].login \in Logins
  BY DEF BaseInv, TypeOK, HandlersOK, HandlerOK
<1>2. code[req[h].using] \in Code
  BY <1>1 DEF BaseInv, TypeOK, CodesIssued
<1>3. code[req[h].using].person \in People
  BY <1>2 DEF Code
<1>4. Redeemed(h) \in Request
  BY <1>1, <1>3 DEF Redeemed, Request
<1>5. /\ Redeemed(h).pc = "look" /\ Redeemed(h).login = req[h].login
      /\ Redeemed(h).leased = req[h].leased
      /\ Redeemed(h).person = code[req[h].using].person
  BY <1>1 DEF Redeemed, Request
<1>6. QED
  BY <1>1, <1>2, <1>3, <1>4, <1>5 DEF HandlerOK

\* Both ways an exchange ends.
LEMMA ExchangedForm ==
  ASSUME BaseInv, NEW h \in Handlers, req[h].pc = "exchange", Exchanged(h)
  PROVE  /\ UNCHANGED <<session, flow, rows>>
         /\ \/ /\ req[h].using = req[h].login
               /\ code' = [code EXCEPT ![req[h].using].spent = TRUE]
               /\ req' = [req EXCEPT ![h] = Redeemed(h)]
            \/ req' = [req EXCEPT ![h] = Idle] /\ code' = code
  BY DEF Exchanged, Verified, Redeemed, BaseInv, TypeOK

LEMMA CodeSpent ==
  ASSUME BaseInv, NEW u \in Logins, code[u] \in Code,
         code' = [code EXCEPT ![u].spent = TRUE]
  PROVE  /\ code' \in [Logins -> Code \union {None}]
         /\ \A l \in Logins : /\ code[l] # None => code'[l] # None
                              /\ code[l] # None => code'[l].person = code[l].person
<1>1. code \in [Logins -> Code \union {None}]
  BY DEF BaseInv, TypeOK
<1>2. code' = [code EXCEPT ![u] = [code[u] EXCEPT !.spent = TRUE]]
  BY <1>1
<1>3. [code[u] EXCEPT !.spent = TRUE] \in Code
      /\ [code[u] EXCEPT !.spent = TRUE].person = code[u].person
  BY DEF Code
<1>4. None \notin Code
  BY NoneAssumption
<1>5. QED
  BY <1>1, <1>2, <1>3, <1>4

LEMMA BaseExchanged ==
  ASSUME BaseInv, NEW h \in Handlers, req[h].pc = "exchange", Exchanged(h)
  PROVE  BaseInv'
<1> USE DEF BaseInv
<1>1. UNCHANGED <<session, flow, rows>>
  BY ExchangedForm
<1>2. /\ code' \in [Logins -> Code \union {None}]
      /\ req' \in [Handlers -> Request] /\ HandlersOK' /\ CodesIssued'
  <2>1. CASE /\ code' = [code EXCEPT ![req[h].using].spent = TRUE]
             /\ req' = [req EXCEPT ![h] = Redeemed(h)]
    <3>1. PICK u \in Logins : u = req[h].using
      BY RedeemedOK
    <3>2. /\ code' \in [Logins -> Code \union {None}]
          /\ \A l \in Logins : code[l] # None => code'[l] # None
      BY <2>1, <3>1, RedeemedOK, CodeSpent
    <3>3. QED
      BY <2>1, <3>2, RedeemedOK, OneMoves
  <2>2. CASE req' = [req EXCEPT ![h] = Idle] /\ code' = code
    BY <2>2, IdleOK, OneMoves DEF TypeOK, Idle
  <2>3. QED
    BY <2>1, <2>2, ExchangedForm
<1>3. session' \in [Logins -> Session]
  BY <1>1 DEF TypeOK
<1>4. QED
  BY <1>1, <1>2, <1>3, SameFlow, SameRows DEF TypeOK

-----------------------------------------------------------------------------
(* The other steps of a handler. *)

\* The handler keeps its login or forgets it.
Keeps(h, q) ==
  /\ q \in Request /\ HandlerOK(q) /\ q.pc # "exchange"
  /\ q.login \in {req[h].login, None}

\* The handler does not poll, and takes no lease.
Calm(h, q) ==
  /\ q.pc \notin {"ask", "update"}
  /\ q.leased => req[h].leased /\ req[h].pc \notin {"ask", "update"}

LEMMA IdleKeeps == ASSUME NEW h PROVE Keeps(h, Idle) /\ Calm(h, Idle)
  BY IdleOK DEF Keeps, Calm, Idle

LEMMA ImportForm ==
  ASSUME BaseInv, NEW h \in Handlers, NEW fs \in Files, Import(h, fs) \/ ImportBatch(h, fs)
  PROVE  /\ UNCHANGED <<browser, flow, rows>>
         /\ \E q : req' = [req EXCEPT ![h] = q] /\ Keeps(h, q) /\ Calm(h, q)
<1> DEFINE q == [Idle EXCEPT !.pc = "parse", !.rest = fs]
<1>1. UNCHANGED <<browser, flow, rows>> /\ req' = [req EXCEPT ![h] = q] /\ fs # <<>>
  BY DEF Import, ImportBatch
<1>2. fs \in Batch
  BY FilesAssumption
<1>3. q \in Request
  BY <1>2, IdleOK, ZenonT(60) DEF Request
<1>4. q.pc = "parse" /\ q.login = None /\ q.rest = fs /\ ~q.leased
  BY DEF Idle
<1>5. Keeps(h, q) /\ Calm(h, q)
  BY <1>1, <1>3, <1>4 DEF Keeps, Calm, HandlerOK
<1>6. QED
  BY <1>1, <1>5

LEMMA NormalizeType ==
  ASSUME NEW f \in AuthFile, NEW c \in normalize(f)
  PROVE  c.id \in People /\ c.of \in SUBSET People
<1>1. /\ f.id \in Token /\ f.access \in Token
      /\ f.refresh \in People \union {None}
  BY DEF AuthFile
<1>2. f.id.owner \in People /\ f.access.owner \in People
  BY <1>1 DEF Token
<1>3. Named(f) \in People \union {None}
  BY <1>2 DEF Named
<1> DEFINE owners == {f.access.owner} \union ({f.refresh} \ {None})
<1>4. owners \in SUBSET People
  BY <1>1, <1>2
<1> HIDE DEF owners
<1>5. \/ Named(f) # None /\ c = [id |-> Named(f), of |-> owners]
      \/ f.refresh # None /\ \E p \in Refreshed(f) : c = [id |-> p, of |-> {f.refresh}]
  BY DEF normalize, owners
<1>6. f.refresh # None => Refreshed(f) \subseteq People
  BY <1>1, <1>2 DEF Refreshed
<1>7. QED
  BY <1>1, <1>3, <1>4, <1>5, <1>6

LEMMA ParseForm ==
  ASSUME BaseInv, NEW h \in Handlers, Parse(h)
  PROVE  /\ UNCHANGED <<browser, flow, rows>>
         /\ \E q : req' = [req EXCEPT ![h] = q] /\ Keeps(h, q) /\ Calm(h, q)
<1>1. UNCHANGED <<browser, flow, rows>> /\ req[h].pc = "parse"
  BY DEF Parse
<1>2. req[h] \in Request /\ req[h].rest \in Batch
  BY DEF BaseInv, TypeOK, Request
<1>3. req[h].rest # <<>> /\ req[h].login = None
  BY <1>1 DEF BaseInv, HandlersOK, HandlerOK
<1>4. PICK f \in AuthFile : f = Head(req[h].rest)
  BY <1>2, <1>3 DEF Batch
<1>5. Tail(req[h].rest) \in Batch
  BY <1>2, <1>3 DEF Batch
<1>6. f.name \in Labels \union {None}
  BY DEF AuthFile
<1> DEFINE q(c) == [req[h] EXCEPT !.pc = "look", !.person = c.id, !.of = c.of,
                                  !.name = f.name, !.rest = Tail(req[h].rest)]
<1>7. \/ req' = [req EXCEPT ![h] = Idle]
      \/ \E c \in normalize(f) : req' = [req EXCEPT ![h] = q(c)]
  BY <1>4 DEF Parse
<1> HIDE DEF q
<1>8. CASE req' = [req EXCEPT ![h] = Idle]
  BY <1>1, <1>8, IdleKeeps
<1>9. CASE \E c \in normalize(f) : req' = [req EXCEPT ![h] = q(c)]
  <2>1. PICK c \in normalize(f) : req' = [req EXCEPT ![h] = q(c)]
    BY <1>9
  <2>2. c.id \in People /\ c.of \in SUBSET People
    BY NormalizeType
  <2>3. q(c) \in Request
    BY <1>2, <1>5, <1>6, <2>2, ZenonT(60) DEF q, Request
  <2>4. /\ q(c).pc = "look" /\ q(c).person = c.id /\ q(c).login = None
        /\ q(c).leased = req[h].leased
    BY <1>2, <1>3 DEF q, Request
  <2>5. Keeps(h, q(c)) /\ Calm(h, q(c))
    BY <1>1, <2>2, <2>3, <2>4 DEF Keeps, Calm, HandlerOK
  <2>6. QED
    BY <1>1, <2>1, <2>5
<1>10. QED
  BY <1>7, <1>8, <1>9

\* The request that has found its row, or that there is none.
Found(h, n) ==
  [req[h] EXCEPT !.pc = "write", !.name = accountName(req[h].name, req[h].person),
                 !.found = n]

LEMMA LookForm ==
  ASSUME BaseInv, NEW h \in Handlers, Look(h)
  PROVE  /\ UNCHANGED <<browser, flow, rows>>
         /\ \E q : req' = [req EXCEPT ![h] = q] /\ Keeps(h, q) /\ Calm(h, q)
<1>1. UNCHANGED <<browser, flow, rows>> /\ req[h].pc = "look"
  BY DEF Look
<1>2. req[h] \in Request /\ req[h].person \in People
  BY <1>1 DEF BaseInv, TypeOK, HandlersOK, HandlerOK
<1>3. /\ req[h].name \in People \union Labels \union {None}
      /\ req[h].target \in People \union Labels \union {None}
  BY <1>2 DEF Request
<1>4. accountName(req[h].name, req[h].person) \in People \union Labels
  BY <1>2, <1>3 DEF accountName
<1>5. \/ req' = [req EXCEPT ![h] = Idle]
      \/ \E n \in People \union Labels \union {None} : req' = [req EXCEPT ![h] = Found(h, n)]
  <2> DEFINE same == {n \in People \union Labels :
                        accounts[n] # None /\ accounts[n].ext = req[h].person}
             name == accountName(req[h].name, req[h].person)
             cands == IF req[h].target # None THEN {req[h].target}
                      ELSE IF same # {} THEN same ELSE {name}
  <2>1. cands \subseteq People \union Labels
    BY <1>3, <1>4
  <2>2. PICK n \in cands :
          \/ req' = [req EXCEPT ![h].pc = "write", ![h].name = name, ![h].found = n]
          \/ req' = [req EXCEPT ![h].pc = "write", ![h].name = name, ![h].found = None]
          \/ req' = [req EXCEPT ![h] = Idle]
    BY DEF Look
  <2>3. \A x : [req EXCEPT ![h].pc = "write", ![h].name = name, ![h].found = x]
                 = [req EXCEPT ![h] = Found(h, x)]
    BY DEF Found, BaseInv, TypeOK
  <2> HIDE DEF name, cands
  <2>4. QED
    BY <2>1, <2>2, <2>3
<1>6. ASSUME NEW n \in People \union Labels \union {None}
      PROVE  Keeps(h, Found(h, n)) /\ Calm(h, Found(h, n))
  <2>1. Found(h, n) \in Request
    BY <1>2, <1>4 DEF Found, Request
  <2>2. /\ Found(h, n).pc = "write" /\ Found(h, n).login = req[h].login
        /\ Found(h, n).person = req[h].person /\ Found(h, n).leased = req[h].leased
        /\ Found(h, n).name = accountName(req[h].name, req[h].person)
    BY <1>2 DEF Found, Request
  <2>3. QED
    BY <1>1, <1>2, <1>4, <2>1, <2>2 DEF Keeps, Calm, HandlerOK
<1>7. QED
  BY <1>1, <1>5, <1>6, IdleKeeps

LEMMA RemainingKeeps ==
  ASSUME BaseInv, NEW h \in Handlers
  PROVE  Keeps(h, Remaining(h)) /\ Calm(h, Remaining(h)) /\ Remaining(h).login = None
<1>1. CASE req[h].rest = <<>>
  BY <1>1, IdleKeeps DEF Remaining, Idle
<1>2. CASE req[h].rest # <<>>
  <2> DEFINE q == [Idle EXCEPT !.pc = "parse", !.rest = req[h].rest]
  <2>1. Remaining(h) = q
    BY <1>2 DEF Remaining
  <2>2. req[h].rest \in Batch
    BY DEF BaseInv, TypeOK, Request
  <2>3. q \in Request
    BY <2>2, IdleOK, ZenonT(60) DEF Request
  <2>4. q.pc = "parse" /\ q.login = None /\ q.rest = req[h].rest /\ ~q.leased
    BY DEF Idle
  <2>5. QED
    BY <1>2, <2>1, <2>3, <2>4 DEF Keeps, Calm, HandlerOK
<1>3. QED
  BY <1>1, <1>2

LEMMA TellType ==
  ASSUME BaseInv, NEW h \in Handlers,
         NEW st \in {"complete", "waiting", "denied", "expired"}, Tell(h, st)
  PROVE  /\ modal' \in {"off", "waiting", "polling", "complete", "expired", "denied", "closed"}
         /\ modal' = "off" => modal = "off"
  BY DEF Tell, BaseInv, TypeOK

LEMMA WriteForm ==
  ASSUME BaseInv, NEW h \in Handlers, WriteCodex(h) \/ WriteClaude(h)
  PROVE  /\ UNCHANGED <<session, code, device, grant, overrun>>
         /\ modal' \in {"off", "waiting", "polling", "complete", "expired", "denied", "closed"}
         /\ modal' = "off" => modal = "off"
         /\ req' = [req EXCEPT ![h] = Remaining(h)]
         /\ \E n \in Names : Put(h, n)
         /\ req[h].person \in People
<1>1. CASE WriteCodex(h)
  <2>1. /\ UNCHANGED <<session, code, device, grant, overrun>> /\ Tell(h, "complete")
        /\ req' = [req EXCEPT ![h] = Remaining(h)]
    BY <1>1 DEF WriteCodex, browser, Done
  <2>2. /\ req[h].person \in People /\ req[h].name \in People \union Labels
        /\ req[h].found \in People \union Labels \union {None}
    BY <1>1 DEF WriteCodex, BaseInv, TypeOK, HandlersOK, HandlerOK, Request
  <2>3. PICK n : /\ Put(h, n)
                 /\ n = IF req[h].found = None THEN req[h].name ELSE req[h].found
    BY <1>1 DEF WriteCodex
  <2>4. n \in Names
    BY <2>2, <2>3 DEF Names
  <2>5. QED
    BY <2>1, <2>2, <2>3, <2>4, TellType
<1>2. CASE WriteClaude(h)
  <2>1. req[h].person \in People
    BY <1>2 DEF WriteClaude, BaseInv, HandlersOK, HandlerOK
  <2>2. ClaudeName(req[h].person) \in Names
    BY <2>1 DEF Names
  <2>3. UNCHANGED <<session, code, device, grant, modal, overrun>>
        /\ req' = [req EXCEPT ![h] = Remaining(h)]
    BY <1>2 DEF WriteClaude, browser, flow, Done
  <2>4. QED
    BY <1>2, <2>1, <2>2, <2>3 DEF WriteClaude, BaseInv, TypeOK
<1>3. QED
  BY <1>1, <1>2

LEMMA DiesForm ==
  ASSUME BaseInv, NEW h \in Handlers, Dies(h)
  PROVE  /\ UNCHANGED <<session, code, device, grant, overrun, rows>>
         /\ modal' \in {"off", "waiting", "polling", "complete", "expired", "denied", "closed"}
         /\ modal' = "off" => modal = "off"
         /\ req' = [req EXCEPT ![h] = Idle]
  BY TellType DEF Dies, browser

\* The request of a handler that has taken the lease.
Polling == [Idle EXCEPT !.pc = "ask", !.heard = TRUE, !.leased = TRUE]

LEMMA PollingKeeps ==
  ASSUME NEW h PROVE Keeps(h, Polling) /\ Polling.pc = "ask" /\ Polling.leased
  BY IdleOK DEF Keeps, Polling, Request, HandlerOK, Idle

LEMMA PollForm ==
  ASSUME BaseInv, NEW h \in Handlers, Poll(h)
  PROVE  /\ UNCHANGED <<session, code, grant, overrun, rows>> /\ req[h].pc = "idle"
         /\ modal = "waiting" /\ modal' \in {"waiting", "expired", "polling"}
         /\ \/ UNCHANGED <<req, device>>
            \/ /\ device.st = "open" /\ ~device.lease
               /\ device' = [device EXCEPT !.lease = TRUE]
               /\ req' = [req EXCEPT ![h] = Polling]
  BY DEF Poll, Free, browser, TooSoon, Leased, Polling

LEMMA AskForm ==
  ASSUME BaseInv, NEW h \in Handlers, Ask(h)
  PROVE  /\ UNCHANGED <<session, code, device, modal, overrun, rows>>
         /\ grant' \in {grant, "spent"} /\ req[h].pc = "ask"
         /\ \E q : /\ req' = [req EXCEPT ![h] = q] /\ Keeps(h, q)
                   /\ q.pc = "update" /\ q.leased = req[h].leased
<1>1. /\ UNCHANGED <<session, code, device, modal, overrun, rows>>
      /\ grant' \in {grant, "spent"} /\ req[h].pc = "ask"
  BY DEF Ask, browser
<1>2. req[h] \in Request /\ req[h].login = None
  BY <1>1 DEF BaseInv, TypeOK, HandlersOK, HandlerOK
<1>3. CASE \E a \in {"failed", "pending", "denied", "expired"} :
             req' = [req EXCEPT ![h] = [req[h] EXCEPT !.pc = "update", !.answer = a]]
  <2>1. PICK a \in {"failed", "pending", "denied", "expired"} :
          req' = [req EXCEPT ![h] = [req[h] EXCEPT !.pc = "update", !.answer = a]]
    BY <1>3
  <2> DEFINE q == [req[h] EXCEPT !.pc = "update", !.answer = a]
  <2>2. q \in Request /\ q.pc = "update" /\ q.answer = a /\ q.login = None
        /\ q.leased = req[h].leased
    BY <1>2 DEF Request
  <2>3. Keeps(h, q)
    BY <2>2 DEF Keeps, HandlerOK
  <2>4. QED
    BY <1>1, <2>1, <2>2, <2>3
<1>4. CASE /\ grant \in People
           /\ req' = [req EXCEPT ![h] = [req[h] EXCEPT !.pc = "update", !.answer = "complete",
                                                       !.person = grant, !.of = {grant}]]
  <2> DEFINE q == [req[h] EXCEPT !.pc = "update", !.answer = "complete", !.person = grant,
                                 !.of = {grant}]
  <2>1. q \in Request /\ q.pc = "update" /\ q.person = grant /\ q.login = None
        /\ q.leased = req[h].leased
    BY <1>2, <1>4 DEF Request
  <2>2. Keeps(h, q)
    BY <1>4, <2>1 DEF Keeps, HandlerOK
  <2>3. QED
    BY <1>1, <1>4, <2>1, <2>2
<1>5. QED
  <2>1. req \in [Handlers -> Request]
    BY DEF BaseInv, TypeOK
  <2>2. \A a, x, y :
                  /\ [req EXCEPT ![h].pc = "update", ![h].answer = a]
                       = [req EXCEPT ![h] = [req[h] EXCEPT !.pc = "update", !.answer = a]]
                  /\ [req EXCEPT ![h].pc = "update", ![h].answer = a, ![h].person = x,
                                 ![h].of = y]
                       = [req EXCEPT ![h] = [req[h] EXCEPT !.pc = "update", !.answer = a,
                                                           !.person = x, !.of = y]]
    BY <2>1
  <2>3. \/ \E a \in {"failed", "pending", "denied", "expired"} :
             req' = [req EXCEPT ![h].pc = "update", ![h].answer = a]
        \/ /\ grant \in People
           /\ req' = [req EXCEPT ![h].pc = "update", ![h].answer = "complete",
                                 ![h].person = grant, ![h].of = {grant}]
    BY DEF Ask
  <2>4. CASE /\ grant \in People
             /\ req' = [req EXCEPT ![h].pc = "update", ![h].answer = "complete",
                                   ![h].person = grant, ![h].of = {grant}]
    BY <1>4, <2>2, <2>4, ZenonT(60)
  <2>5. ASSUME NEW a \in {"failed", "pending", "denied", "expired"},
               req' = [req EXCEPT ![h].pc = "update", ![h].answer = a]
        PROVE  req' = [req EXCEPT ![h] = [req[h] EXCEPT !.pc = "update", !.answer = a]]
    BY <2>2, <2>5
  <2>6. QED
    BY <1>3, <2>3, <2>4, <2>5

LEMMA UpdateForm ==
  ASSUME BaseInv, NEW h \in Handlers, Update(h)
  PROVE  /\ UNCHANGED <<session, code, grant, overrun, rows>> /\ req[h].pc = "update"
         /\ modal' \in {"off", "waiting", "polling", "complete", "expired", "denied", "closed"}
         /\ modal' = "off" => modal = "off"
         /\ device' \in Device /\ ~device'.lease
         /\ device'.ttl = device.ttl /\ device'.over = device.over
         /\ device.over => device'.st = "gone"
         /\ \E q : /\ req' = [req EXCEPT ![h] = q] /\ Keeps(h, q)
                   /\ q.pc \notin {"ask", "update"} /\ ~q.leased
<1>1. UNCHANGED <<session, code, grant, overrun, rows>> /\ req[h].pc = "update"
  BY DEF Update, browser
<1>2. req[h] \in Request /\ HandlerOK(req[h])
  BY DEF BaseInv, TypeOK, HandlersOK
<1>3. /\ modal' \in {"off", "waiting", "polling", "complete", "expired", "denied", "closed"}
      /\ modal' = "off" => modal = "off"
  <2>1. UNCHANGED modal \/ \E st \in {"waiting", "denied", "expired"} : Tell(h, st)
    BY DEF Update
  <2>2. QED
    BY <2>1, TellType DEF BaseInv, TypeOK
<1>4. /\ device' \in Device /\ ~device'.lease /\ device'.ttl = device.ttl
      /\ device'.over = device.over /\ (device.over => device'.st = "gone")
  BY DEF Update, BaseInv, TypeOK, Device
<1>5. \E q : /\ req' = [req EXCEPT ![h] = q] /\ Keeps(h, q)
             /\ q.pc \notin {"ask", "update"} /\ ~q.leased
  <2>1. CASE req[h].answer = "complete"
    <3> DEFINE q == [req[h] EXCEPT !.pc = "look", !.leased = FALSE]
    <3>1. req' = [req EXCEPT ![h] = q]
      BY <2>1 DEF Update
    <3>2. /\ q \in Request /\ q.pc = "look" /\ q.person = req[h].person
          /\ q.login = req[h].login /\ ~q.leased
      <4>1. PICK r \in Request : r = req[h]
        BY <1>2
      <4>2. q = [r EXCEPT !.pc = "look", !.leased = FALSE]
        BY <4>1
      <4>3. /\ q \in Request /\ q.pc = "look" /\ q.person = r.person
            /\ q.login = r.login /\ ~q.leased
        BY ONLY <4>1, <4>2, ZenonT(60) DEF Request
      <4>4. QED
        BY <4>1, <4>3
    <3>3. Keeps(h, q)
      BY <1>1, <1>2, <2>1, <3>2 DEF Keeps, HandlerOK
    <3>4. QED
      BY <3>1, <3>2, <3>3
  <2>2. CASE req[h].answer # "complete"
    <3>1. req' = [req EXCEPT ![h] = Idle]
      BY <2>2 DEF Update
    <3>2. QED
      BY <3>1, IdleKeeps, IdleOK DEF Calm
  <2>3. QED
    BY <2>1, <2>2
<1>6. QED
  BY <1>1, <1>3, <1>4, <1>5

LEMMA KeepsMoves ==
  ASSUME BaseInv, NEW h \in Handlers, NEW q, req' = [req EXCEPT ![h] = q], Keeps(h, q),
         code' = code
  PROVE  req' \in [Handlers -> Request] /\ HandlersOK' /\ CodesIssued'
  BY OneMoves DEF Keeps

LEMMA RerenderForm ==
  ASSUME BaseInv, Rerender
  PROVE  /\ DOMAIN req' = Handlers /\ req' = [i \in Handlers |-> req'[i]]
         /\ \A i \in Handlers : Retimed(i) /\ req'[i].leased = req[i].leased
<1>1. req' = [i \in Handlers |-> [req[i] EXCEPT !.heard = FALSE]]
  BY DEF Rerender
<1>2. ASSUME NEW i \in Handlers PROVE Retimed(i) /\ req'[i].leased = req[i].leased
  <2>1. req[i] \in Request /\ req'[i] = [req[i] EXCEPT !.heard = FALSE]
    BY <1>1 DEF BaseInv, TypeOK
  <2>2. QED
    BY ONLY <2>1, ZenonT(60) DEF Request, Retimed
<1>3. QED
  BY <1>1, <1>2

LEMMA LeaseExpiresForm ==
  ASSUME BaseInv, LeaseExpires
  PROVE  /\ DOMAIN req' = Handlers /\ req' = [i \in Handlers |-> req'[i]]
         /\ \A i \in Handlers : Retimed(i) /\ ~req'[i].leased
<1>1. req' = [i \in Handlers |-> [req[i] EXCEPT !.leased = FALSE]]
  BY DEF LeaseExpires
<1>2. ASSUME NEW i \in Handlers PROVE Retimed(i) /\ ~req'[i].leased
  <2>1. req[i] \in Request /\ req'[i] = [req[i] EXCEPT !.leased = FALSE]
    BY <1>1 DEF BaseInv, TypeOK
  <2>2. QED
    BY ONLY <2>1, ZenonT(60) DEF Request, Retimed
<1>3. QED
  BY <1>1, <1>2

LEMMA DeviceExpiresForm ==
  ASSUME BaseInv, DeviceExpires
  PROVE  /\ DOMAIN req' = Handlers /\ req' = [i \in Handlers |-> req'[i]]
         /\ \A i \in Handlers : Retimed(i) /\ (req'[i].leased <=> (req[i].leased /\ ~device.ttl))
         /\ device' \in Device /\ device'.ttl = device.ttl /\ device'.over
         /\ device.ttl => device'.st = "gone"
<1>1. req' = [i \in Handlers |-> [req[i] EXCEPT !.leased = @ /\ ~device.ttl]]
  BY DEF DeviceExpires
<1>2. ASSUME NEW i \in Handlers
      PROVE  Retimed(i) /\ (req'[i].leased <=> (req[i].leased /\ ~device.ttl))
  <2>1. /\ req[i] \in Request /\ req[i].leased \in BOOLEAN
        /\ req'[i] = [req[i] EXCEPT !.leased = req[i].leased /\ ~device.ttl]
    BY <1>1 DEF BaseInv, TypeOK, Request
  <2>2. PICK b \in BOOLEAN : b = (req[i].leased /\ ~device.ttl)
    BY Zenon
  <2>3. req'[i] = [req[i] EXCEPT !.leased = b]
    BY <2>1, <2>2, Zenon
  <2>4. Retimed(i) /\ req'[i].leased = b
    BY ONLY <2>1, <2>2, <2>3, ZenonT(60) DEF Request, Retimed
  <2>5. QED
    BY <2>2, <2>4, Zenon
<1>3. /\ device' \in Device /\ device'.ttl = device.ttl /\ device'.over
      /\ device.ttl => device'.st = "gone"
  BY DEF DeviceExpires, BaseInv, TypeOK, Device
<1>4. QED
  BY <1>1, <1>2, <1>3

-----------------------------------------------------------------------------
(* The rows. *)

LEMMA PutRows ==
  ASSUME BaseInv, NEW h \in Handlers, NEW n \in Names, Put(h, n), req[h].person \in People
  PROVE  /\ accounts' \in [Names -> Row \union {None}]
         /\ gw' \in [Names -> Credential \union {None}]
         /\ writes' \in 0..MaxWrites /\ wrote' \in [Logins -> Nat]
         /\ RowsOK'
<1> DEFINE b == [id |-> req[h].person, of |-> req[h].of]
           u == Upserted(n, b)
<1>1. /\ accounts' = [accounts EXCEPT ![n] = u] /\ gw' = gw
      /\ writes' = writes + 1 /\ writes < MaxWrites
      /\ wrote' = [l \in Logins |-> IF l = req[h].login THEN wrote[l] + 1 ELSE wrote[l]]
  BY DEF Put
<1>2. writes \in 0..MaxWrites /\ wrote \in [Logins -> Nat] /\ MaxWrites \in Nat
  BY SignInAssumption DEF BaseInv, TypeOK
<1>3. accounts[n] # None => accounts[n].rev \in 1..MaxWrites /\ accounts[n].rev <= writes
  BY DEF BaseInv, TypeOK, Row, RowsOK, RowOK
<1>0. b \in Bundle /\ b.id \in People /\ (~OwnBundle(b, b.id)) \in BOOLEAN
  BY DEF Bundle, BaseInv, TypeOK, Request, OwnBundle
<1> HIDE DEF b
<1>4. /\ u \in Row /\ u.rev <= writes + 1 /\ u.secret = writes + 1 /\ u.login = writes + 1
      /\ accounts[n] # None => u.rev = accounts[n].rev + 1
  BY <1>0, <1>1, <1>2, <1>3 DEF Upserted, Row
<1>5. u # None
  BY <1>4, NoneAssumption
<1> HIDE DEF u
<1>6. accounts' \in [Names -> Row \union {None}] /\ gw' \in [Names -> Credential \union {None}]
  BY <1>1, <1>4 DEF BaseInv, TypeOK
<1>7. writes' \in 0..MaxWrites /\ wrote' \in [Logins -> Nat]
  BY <1>1, <1>2
<1>8. ASSUME NEW m \in Names PROVE RowOK(m)'
  <2>1. RowOK(m) /\ accounts'[m] = IF m = n THEN u ELSE accounts[m]
    BY <1>1 DEF BaseInv, TypeOK, RowsOK
  <2>2. /\ accounts[m] # None => accounts[m] \in Row
        /\ gw[m] # None => gw[m] \in Credential
    BY DEF BaseInv, TypeOK
  <2>3. QED
    BY <1>1, <1>2, <1>3, <1>4, <1>5, <2>1, <2>2 DEF RowOK, Row, Credential
<1>9. QED
  BY <1>6, <1>7, <1>8 DEF RowsOK

LEMMA FreshType ==
  ASSUME NEW b \in Bundle, NEW c \in Fresh(b)
  PROVE  c \in Bundle /\ c.id = b.id /\ \A p : b.of = {p} => c.of = {p}
  BY DEF Fresh, Bundle

\* The other writers of a row leave the requests, the browser and the device
\* flow alone.
LEMMA OtherRows ==
  ASSUME BaseInv, NEW n \in Names,
         GatewayReads(n) \/ GatewayPuts(n) \/ PatchCredential(n) \/ DeleteAccount(n)
  PROVE  /\ accounts' \in [Names -> Row \union {None}]
         /\ gw' \in [Names -> Credential \union {None}]
         /\ writes' \in 0..MaxWrites /\ wrote' \in [Logins -> Nat]
         /\ RowsOK'
<1>1. /\ wrote' = wrote /\ wrote \in [Logins -> Nat] /\ writes \in 0..MaxWrites
      /\ MaxWrites \in Nat
  BY SignInAssumption DEF BaseInv, TypeOK, GatewayReads, GatewayPuts, PatchCredential, DeleteAccount
<1>2. /\ accounts \in [Names -> Row \union {None}] /\ gw \in [Names -> Credential \union {None}]
      /\ accounts[n] \in Row /\ RowOK(n)
      /\ accounts[n].rev \in 1..MaxWrites /\ accounts[n].secret \in 1..MaxWrites
      /\ accounts[n].login \in 1..MaxWrites /\ accounts[n].cred \in Bundle
      /\ accounts[n].ext \in People /\ accounts[n].foreign \in BOOLEAN
  BY DEF BaseInv, TypeOK, Row, RowsOK, GatewayReads, GatewayPuts, PatchCredential, DeleteAccount
<1>3. SUFFICES /\ accounts' \in [Names -> Row \union {None}]
               /\ gw' \in [Names -> Credential \union {None}]
               /\ writes' \in 0..MaxWrites
               /\ writes' >= writes
               /\ \A m \in Names \ {n} : accounts'[m] = accounts[m] /\ gw'[m] = gw[m]
               /\ RowOK(n)'
  <2>1. ASSUME NEW m \in Names \ {n}, accounts'[m] = accounts[m], gw'[m] = gw[m],
               writes' \in 0..MaxWrites, writes' >= writes
        PROVE  RowOK(m)'
    <3>1. /\ accounts[m] # None => accounts[m] \in Row
          /\ gw[m] # None => gw[m] \in Credential
          /\ RowOK(m)
      BY <1>2 DEF BaseInv, RowsOK
    <3>2. QED
      BY <1>1, <2>1, <3>1 DEF RowOK, Row, Credential
  <2>2. QED
    BY <1>1, <2>1 DEF RowsOK
<1>4. CASE GatewayReads(n)
  <2> DEFINE c == [rev |-> accounts[n].rev, secret |-> accounts[n].secret, cred |-> accounts[n].cred]
  <2>1. gw' = [gw EXCEPT ![n] = c] /\ accounts' = accounts /\ writes' = writes
    BY <1>4 DEF GatewayReads
  <2>2. c \in Credential /\ c # None
    BY <1>2, NoneAssumption DEF Credential
  <2>3. RowOK(n)'
    BY <1>1, <1>2, <1>4, <2>1, <2>2 DEF RowOK, GatewayReads
  <2>4. QED
    BY <1>1, <1>2, <2>1, <2>2, <2>3
<1>5. CASE GatewayPuts(n)
  <2>0. PICK b \in Fresh(gw[n].cred) :
          /\ accounts' = [accounts EXCEPT
               ![n].secret = writes + 1, ![n].rev = @ + 1, ![n].cred = b,
               ![n].ext = IF b.id = None THEN @ ELSE b.id]
          /\ gw' = [gw EXCEPT ![n] = [rev |-> accounts[n].rev + 1, secret |-> writes + 1,
                                      cred |-> b]]
    BY <1>5 DEF GatewayPuts
  <2> DEFINE x == IF b.id = None THEN accounts[n].ext ELSE b.id
             c == [rev |-> accounts[n].rev + 1, secret |-> writes + 1, cred |-> b]
             u == [accounts[n] EXCEPT !.secret = writes + 1, !.rev = accounts[n].rev + 1,
                                      !.cred = b, !.ext = x]
  <2>b. b \in Bundle /\ x \in People
    <3>1. gw[n].cred \in Bundle
      BY <1>2, <1>5 DEF GatewayPuts, Credential
    <3>2. b \in Bundle
      BY <2>0, <3>1, FreshType
    <3>3. QED
      BY <1>2, <3>2 DEF Bundle
  <2>1. /\ gw' = [gw EXCEPT ![n] = c] /\ writes' = writes + 1 /\ writes < MaxWrites
        /\ accounts' = [accounts EXCEPT ![n] = u]
    BY <1>2, <1>5, <2>0 DEF GatewayPuts
  <2> HIDE DEF x
  <2>2. accounts[n].rev <= writes /\ accounts[n].login <= writes
    <3>1. accounts[n] # None
      BY <1>5 DEF GatewayPuts
    <3>2. QED
      BY <1>1, <1>2, <3>1 DEF RowOK
  <2>3. c \in Credential /\ c # None /\ u \in Row /\ u # None
    <3>1. accounts[n].rev + 1 \in 1..MaxWrites /\ writes + 1 \in 1..MaxWrites
      BY <1>1, <1>2, <2>1, <2>2
    <3>2. c \in Credential /\ u \in Row
      BY <1>2, <2>b, <3>1 DEF Credential, Row
    <3>3. QED
      BY <3>2, NoneAssumption
  <2>4. /\ u.rev = accounts[n].rev + 1 /\ u.secret = writes + 1 /\ u.login = accounts[n].login
        /\ c.rev = accounts[n].rev + 1 /\ c.secret = writes + 1
    BY <1>2 DEF Row
  <2> HIDE DEF c, u
  <2>5. accounts'[n] = u /\ gw'[n] = c
    BY <1>2, <2>1
  <2>6. RowOK(n)'
    BY <1>1, <1>2, <2>1, <2>2, <2>4, <2>3, <2>5 DEF RowOK
  <2>7. QED
    BY <1>1, <1>2, <2>1, <2>3, <2>6
<1>6. CASE PatchCredential(n)
  <2>0. PICK b \in Pasted :
          accounts' = [accounts EXCEPT
            ![n].secret = writes + 1, ![n].cred = b,
            ![n].foreign = @ \/ ~OwnBundle(b, accounts[n].ext)]
    BY <1>6 DEF PatchCredential
  <2> DEFINE y == accounts[n].foreign \/ ~OwnBundle(b, accounts[n].ext)
             u == [accounts[n] EXCEPT !.secret = writes + 1, !.cred = b, !.foreign = y]
  <2>b. b \in Bundle /\ y \in BOOLEAN
    BY PastedAssumption DEF OwnBundle
  <2>1. /\ gw' = gw /\ writes' = writes + 1 /\ writes < MaxWrites
        /\ accounts' = [accounts EXCEPT ![n] = u]
    BY <1>2, <1>6, <2>0 DEF PatchCredential
  <2> HIDE DEF y
  <2>2. accounts[n].rev <= writes /\ accounts[n].login <= writes
    <3>1. accounts[n] # None
      BY <1>6 DEF PatchCredential
    <3>2. QED
      BY <1>1, <1>2, <3>1 DEF RowOK
  <2>3. u \in Row /\ u # None
    <3>1. writes + 1 \in 1..MaxWrites
      BY <1>1, <2>1
    <3>2. u \in Row
      BY <1>2, <2>b, <3>1 DEF Row
    <3>3. QED
      BY <3>2, NoneAssumption
  <2>4. u.rev = accounts[n].rev /\ u.secret = writes + 1 /\ u.login = accounts[n].login
    BY <1>2 DEF Row
  <2> HIDE DEF u
  <2>5. accounts'[n] = u /\ gw'[n] = gw[n] /\ (gw[n] # None => gw[n] \in Credential)
    BY <1>2, <2>1
  <2>6. RowOK(n)'
    BY <1>1, <1>2, <2>1, <2>2, <2>3, <2>4, <2>5 DEF RowOK, Credential
  <2>7. QED
    BY <1>1, <1>2, <2>1, <2>3, <2>6
<1>7. CASE DeleteAccount(n)
  <2>1. /\ gw' = [gw EXCEPT ![n] = None] /\ accounts' = [accounts EXCEPT ![n] = None]
        /\ writes' = writes
    BY <1>7 DEF DeleteAccount
  <2>2. RowOK(n)'
    BY <1>2, <2>1 DEF RowOK
  <2>3. QED
    BY <1>1, <1>2, <2>1, <2>2
<1>8. QED
  BY <1>4, <1>5, <1>6, <1>7

-----------------------------------------------------------------------------
\* One handler moves on without touching the browser's keys and the rows.
LEMMA BaseKeeps ==
  ASSUME BaseInv, NEW h \in Handlers, NEW q, req' = [req EXCEPT ![h] = q], Keeps(h, q),
         session' = session, code' = code, UNCHANGED rows, device' \in Device,
         grant' \in People \union {"none", "waiting", "denied", "lapsed", "spent"},
         modal' \in {"off", "waiting", "polling", "complete", "expired", "denied", "closed"},
         overrun' \in BOOLEAN
  PROVE  BaseInv'
<1>1. req' \in [Handlers -> Request] /\ HandlersOK' /\ CodesIssued'
  BY KeepsMoves
<1>2. session' \in [Logins -> Session] /\ code' \in [Logins -> Code \union {None}]
  BY DEF BaseInv, TypeOK
<1>3. QED
  BY <1>1, <1>2, SameRows DEF BaseInv, TypeOK

LEMMA BaseHandle ==
  ASSUME BaseInv, NEW h \in Handlers, Handle(h)
  PROVE  BaseInv'
<1>1. ASSUME NEW l \in Logins, NEW c \in Logins \union {None},
             CodexCallback(h, l, c) \/ ClaudeCallback(h, l, c)
      PROVE  BaseInv'
  BY <1>1, BaseCallback
<1>2. CASE exchangeAuthorizationCode(h) \/ exchangeClaudeCode(h)
  BY <1>2, BaseExchanged DEF exchangeAuthorizationCode, exchangeClaudeCode
<1>3. ASSUME UNCHANGED <<browser, flow, rows>>,
             \E q : req' = [req EXCEPT ![h] = q] /\ Keeps(h, q)
      PROVE  BaseInv'
  <2>1. session' = session /\ code' = code /\ UNCHANGED rows /\ UNCHANGED flow
    BY <1>3 DEF browser
  <2>2. QED
    BY <1>3, <2>1, SameFlow, BaseKeeps
<1>4. ASSUME NEW fs \in Files, Import(h, fs) \/ ImportBatch(h, fs)
      PROVE  BaseInv'
  BY <1>3, <1>4, ImportForm
<1>5. CASE Parse(h)
  BY <1>3, <1>5, ParseForm
<1>6. CASE Look(h)
  BY <1>3, <1>6, LookForm
<1>7. CASE WriteCodex(h) \/ WriteClaude(h)
  <2>1. PICK n \in Names : Put(h, n) /\ req[h].person \in People
    BY <1>7, WriteForm
  <2>2. /\ session' = session /\ code' = code /\ device' = device /\ grant' = grant
        /\ overrun' = overrun
        /\ modal' \in {"off", "waiting", "polling", "complete", "expired", "denied", "closed"}
        /\ req' = [req EXCEPT ![h] = Remaining(h)]
    BY <1>7, WriteForm
  <2>3. req' \in [Handlers -> Request] /\ HandlersOK' /\ CodesIssued'
    BY <2>2, RemainingKeeps, KeepsMoves
  <2>4. QED
    BY <2>1, <2>2, <2>3, PutRows DEF BaseInv, TypeOK
<1>8. CASE Dies(h)
  <2>1. /\ session' = session /\ code' = code /\ device' = device /\ grant' = grant
        /\ overrun' = overrun /\ UNCHANGED rows
        /\ modal' \in {"off", "waiting", "polling", "complete", "expired", "denied", "closed"}
        /\ req' = [req EXCEPT ![h] = Idle]
    BY <1>8, DiesForm
  <2>2. QED
    BY <2>1, IdleKeeps, BaseKeeps DEF BaseInv, TypeOK
<1>9. CASE Poll(h)
  <2>1. /\ session' = session /\ code' = code /\ grant' = grant /\ overrun' = overrun
        /\ UNCHANGED rows /\ modal' \in {"waiting", "expired", "polling"}
    BY <1>9, PollForm
  <2>2. CASE req' = req /\ device' = device
    <3>1. code' = code /\ (\A l \in Logins : code[l] # None => code'[l] # None)
      BY <2>1
    <3>2. QED
      BY <2>1, <2>2, <3>1, SameRequests, SameRows DEF BaseInv, TypeOK
  <2>3. CASE /\ device' = [device EXCEPT !.lease = TRUE]
             /\ req' = [req EXCEPT ![h] = Polling]
    <3>1. device' \in Device
      BY <2>3 DEF BaseInv, TypeOK, Device
    <3>2. grant' \in People \union {"none", "waiting", "denied", "lapsed", "spent"}
          /\ overrun' \in BOOLEAN
      BY <2>1 DEF BaseInv, TypeOK
    <3>3. QED
      BY <2>1, <2>3, <3>1, <3>2, PollingKeeps, BaseKeeps
  <2>4. QED
    BY <1>9, <2>2, <2>3, PollForm
<1>10. CASE Ask(h)
  <2>1. /\ session' = session /\ code' = code /\ device' = device /\ modal' = modal
        /\ overrun' = overrun /\ UNCHANGED rows /\ grant' \in {grant, "spent"}
    BY <1>10, AskForm
  <2>2. PICK q : req' = [req EXCEPT ![h] = q] /\ Keeps(h, q)
    BY <1>10, AskForm
  <2>3. /\ device' \in Device /\ overrun' \in BOOLEAN
        /\ modal' \in {"off", "waiting", "polling", "complete", "expired", "denied", "closed"}
        /\ grant' \in People \union {"none", "waiting", "denied", "lapsed", "spent"}
    BY <2>1 DEF BaseInv, TypeOK
  <2>4. QED
    BY <2>1, <2>2, <2>3, BaseKeeps
<1>11. CASE Update(h)
  <2>1. /\ session' = session /\ code' = code /\ grant' = grant
        /\ overrun' = overrun /\ UNCHANGED rows /\ device' \in Device
        /\ modal' \in {"off", "waiting", "polling", "complete", "expired", "denied", "closed"}
    BY <1>11, UpdateForm
  <2>2. PICK q : req' = [req EXCEPT ![h] = q] /\ Keeps(h, q)
    BY <1>11, UpdateForm
  <2>3. /\ overrun' \in BOOLEAN
        /\ grant' \in People \union {"none", "waiting", "denied", "lapsed", "spent"}
    BY <2>1 DEF BaseInv, TypeOK
  <2>4. QED
    BY <2>1, <2>2, <2>3, BaseKeeps
<1>12. QED
  BY <1>1, <1>2, <1>4, <1>5, <1>6, <1>7, <1>8, <1>9, <1>10, <1>11 DEF Handle

LEMMA BaseDevice ==
  ASSUME BaseInv,
         StartDevice \/ Decide \/ Rerender \/ CloseModal \/ LeaseExpires \/ DueAgain
           \/ DeviceExpires
  PROVE  BaseInv'
<1>1. session' = session /\ code' = code /\ UNCHANGED rows
  BY DEF StartDevice, Decide, Rerender, CloseModal, LeaseExpires, DueAgain, DeviceExpires, browser
<1>2. session' \in [Logins -> Session] /\ code' \in [Logins -> Code \union {None}]
      /\ (\A l \in Logins : code[l] # None => code'[l] # None)
  BY <1>1 DEF BaseInv, TypeOK
<1>3. /\ grant' \in People \union {"none", "waiting", "denied", "lapsed", "spent"}
      /\ modal' \in {"off", "waiting", "polling", "complete", "expired", "denied", "closed"}
      /\ overrun' \in BOOLEAN
  BY DEF StartDevice, Decide, Rerender, CloseModal, LeaseExpires, DueAgain, DeviceExpires, BaseInv, TypeOK
<1>4. device' \in Device
  <2>1. CASE StartDevice
    BY <2>1 DEF StartDevice, Closed, Device
  <2>2. CASE LeaseExpires
    BY <2>2 DEF LeaseExpires, BaseInv, TypeOK, Device
  <2>3. CASE DueAgain
    BY <2>3 DEF DueAgain, BaseInv, TypeOK, Device
  <2>4. CASE DeviceExpires
    BY <2>4, DeviceExpiresForm
  <2>5. CASE Decide \/ Rerender \/ CloseModal
    BY <2>5 DEF Decide, Rerender, CloseModal, BaseInv, TypeOK
  <2>6. QED
    BY <2>1, <2>2, <2>3, <2>4, <2>5
<1>5. req' \in [Handlers -> Request] /\ HandlersOK' /\ CodesIssued'
  <2>1. CASE StartDevice \/ Decide \/ CloseModal \/ DueAgain
    <3>1. UNCHANGED req
      BY <2>1 DEF StartDevice, Decide, CloseModal, DueAgain
    <3>2. QED
      BY <1>2, <3>1, SameRequests
  <2>2. CASE Rerender \/ LeaseExpires \/ DeviceExpires
    BY <1>1, <2>2, RerenderForm, LeaseExpiresForm, DeviceExpiresForm, AllMove
  <2>3. QED
    BY <2>1, <2>2
<1>6. QED
  BY <1>1, <1>2, <1>3, <1>4, <1>5, SameRows DEF BaseInv, TypeOK

LEMMA OthersForm ==
  ASSUME NEW n \in Names,
         GatewayReads(n) \/ GatewayPuts(n) \/ PatchCredential(n) \/ DeleteAccount(n)
  PROVE  /\ session' = session /\ code' = code /\ device' = device /\ grant' = grant
         /\ modal' = modal /\ overrun' = overrun /\ req' = req /\ wrote' = wrote
  BY DEF GatewayReads, GatewayPuts, PatchCredential, DeleteAccount, browser, flow

LEMMA BaseStep == BaseInv /\ [Next]_vars => BaseInv'
<1> SUFFICES ASSUME BaseInv, [Next]_vars PROVE BaseInv'
  OBVIOUS
<1>1. ASSUME NEW l \in Logins, Login(l) PROVE BaseInv'
  BY <1>1, BaseLogin
<1>2. ASSUME NEW h \in Handlers, Handle(h) PROVE BaseInv'
  BY <1>2, BaseHandle
<1>3. CASE StartDevice \/ Decide \/ Rerender \/ CloseModal \/ LeaseExpires \/ DueAgain
             \/ DeviceExpires
  BY <1>3, BaseDevice
<1>4. ASSUME NEW n \in Names,
             GatewayReads(n) \/ GatewayPuts(n) \/ PatchCredential(n) \/ DeleteAccount(n)
      PROVE  BaseInv'
  <2>1. /\ session' = session /\ code' = code /\ device' = device /\ grant' = grant
        /\ modal' = modal /\ overrun' = overrun /\ req' = req
    BY <1>4, OthersForm
  <2>2. req' \in [Handlers -> Request] /\ HandlersOK' /\ CodesIssued'
    BY <2>1, SameRequests
  <2>3. QED
    BY <1>4, <2>1, <2>2, OtherRows DEF BaseInv, TypeOK
<1>5. CASE UNCHANGED vars
  <2>1. /\ session' = session /\ code' = code /\ device' = device /\ grant' = grant
        /\ modal' = modal /\ overrun' = overrun /\ req' = req /\ UNCHANGED rows
    BY <1>5 DEF vars, rows
  <2>2. req' \in [Handlers -> Request] /\ HandlersOK' /\ CodesIssued'
    BY <2>1, SameRequests
  <2>3. QED
    BY <2>1, <2>2, SameRows DEF BaseInv, TypeOK
<1>6. QED
  BY <1>1, <1>2, <1>3, <1>4, <1>5 DEF Next

LEMMA BaseIsInvariant == Spec => []BaseInv
<1>1. QED
  BY BaseInit, BaseStep, PTL DEF Spec

\* Every session, request, row and key keeps its type: in particular a row
\* never gets a revision or a secret that no write has brought, and a handler
\* writes only for a person it knows.
THEOREM TypeCorrect == Spec => []TypeOK
<1>1. BaseInv => TypeOK
  BY DEF BaseInv
<1>2. QED
  BY <1>1, BaseIsInvariant, PTL

-----------------------------------------------------------------------------
(* What a step does to logins. *)

\* No login changes hands.
QuietStep ==
  /\ wrote' = wrote
  /\ \A l \in Logins : session'[l].st # "gone" => session[l].st # "gone"
  /\ \A i \in Handlers : req'[i].login \in {req[i].login, None}

\* Handler h takes login l over from its session.
TakesLogin(h, l) ==
  /\ wrote' = wrote
  /\ session[l].st = "open" /\ session' = [session EXCEPT ![l] = Gone]
  /\ req'[h].login = l /\ \A i \in Handlers \ {h} : req'[i] = req[i]

\* Handler h writes its login, if it has one, and is done with it.
WritesLogin(h) ==
  /\ wrote' = [l \in Logins |-> IF l = req[h].login THEN wrote[l] + 1 ELSE wrote[l]]
  /\ session' = session
  /\ req'[h].login = None /\ \A i \in Handlers \ {h} : req'[i] = req[i]

LoginStep ==
  \/ QuietStep
  \/ \E h \in Handlers, l \in Logins : TakesLogin(h, l)
  \/ \E h \in Handlers : WritesLogin(h)

LEMMA KeepsIsQuiet ==
  ASSUME BaseInv, NEW h \in Handlers, NEW q, req' = [req EXCEPT ![h] = q], Keeps(h, q),
         session' = session, wrote' = wrote
  PROVE  LoginStep
<1>1. \A i \in Handlers : req'[i] = IF i = h THEN q ELSE req[i]
  BY DEF BaseInv, TypeOK
<1>2. QuietStep
  BY <1>1 DEF QuietStep, Keeps
<1>3. QED
  BY <1>2 DEF LoginStep

LEMMA SameIsQuiet ==
  ASSUME \A i \in Handlers : req'[i].login = req[i].login,
         session' = session, wrote' = wrote
  PROVE  LoginStep
  BY DEF LoginStep, QuietStep

LEMMA LoginIsQuiet ==
  ASSUME BaseInv, NEW l \in Logins, Login(l)
  PROVE  LoginStep
<1>1. req' = req /\ wrote' = wrote
  BY DEF Login, StartLogin, SessionExpires, Approve, rows
<1>2. \A m \in Logins : session'[m].st # "gone" => session[m].st # "gone"
  BY DEF BaseInv, TypeOK, Login, StartLogin, SessionExpires, Approve, Gone
<1>3. QED
  BY <1>1, <1>2 DEF LoginStep, QuietStep

LEMMA CallbackTakes ==
  ASSUME BaseInv, NEW h \in Handlers, NEW l \in Logins, NEW c \in Logins \union {None},
         CodexCallback(h, l, c) \/ ClaudeCallback(h, l, c)
  PROVE  LoginStep
<1>1. /\ wrote' = wrote /\ session[l].st = "open"
      /\ session' = [session EXCEPT ![l] = Gone]
  BY DEF CodexCallback, ClaudeCallback, consumeJsonOnce, rows
<1>2. CASE UNCHANGED req
  <2>1. \A m \in Logins : session'[m].st # "gone" => session[m].st # "gone"
    BY <1>1 DEF BaseInv, TypeOK, Gone
  <2>2. QED
    BY <1>1, <1>2, <2>1 DEF LoginStep, QuietStep
<1>3. CASE c \in Logins /\ code[c] # None /\ req' = [req EXCEPT ![h] = Sent(l, c)]
  <2>1. Sent(l, c).login = l /\ Sent(l, c).person = None
    BY <1>3, SentOK
  <2>2. \A i \in Handlers : req'[i] = IF i = h THEN Sent(l, c) ELSE req[i]
    BY <1>3 DEF BaseInv, TypeOK
  <2>3. TakesLogin(h, l)
    BY <1>1, <2>1, <2>2 DEF TakesLogin
  <2>4. QED
    BY <2>3 DEF LoginStep
<1>4. QED
  BY <1>2, <1>3 DEF CodexCallback, ClaudeCallback, Redeem, Sent

LEMMA ExchangeIsQuiet ==
  ASSUME BaseInv, NEW h \in Handlers, req[h].pc = "exchange", Exchanged(h)
  PROVE  LoginStep
<1>1. session' = session /\ wrote' = wrote
  BY ExchangedForm DEF rows
<1>2. CASE req' = [req EXCEPT ![h] = Idle] /\ code' = code
  BY <1>1, <1>2, IdleKeeps, KeepsIsQuiet
<1>3. CASE /\ code' = [code EXCEPT ![req[h].using].spent = TRUE]
           /\ req' = [req EXCEPT ![h] = Redeemed(h)]
  <2>1. \A i \in Handlers : req'[i] = IF i = h THEN Redeemed(h) ELSE req[i]
    BY <1>3 DEF BaseInv, TypeOK
  <2>2. Redeemed(h).login = req[h].login
    BY RedeemedOK
  <2>3. QuietStep
    BY <1>1, <2>1, <2>2 DEF QuietStep
  <2>4. QED
    BY <2>3 DEF LoginStep
<1>4. QED
  BY <1>2, <1>3, ExchangedForm

LEMMA HandleLogins ==
  ASSUME BaseInv, NEW h \in Handlers, Handle(h)
  PROVE  LoginStep
<1>1. ASSUME NEW l \in Logins, NEW c \in Logins \union {None},
             CodexCallback(h, l, c) \/ ClaudeCallback(h, l, c)
      PROVE  LoginStep
  BY <1>1, CallbackTakes
<1>2. CASE exchangeAuthorizationCode(h) \/ exchangeClaudeCode(h)
  BY <1>2, ExchangeIsQuiet DEF exchangeAuthorizationCode, exchangeClaudeCode
<1>3. ASSUME UNCHANGED <<browser, flow, rows>>,
             \E q : req' = [req EXCEPT ![h] = q] /\ Keeps(h, q)
      PROVE  LoginStep
  <2>1. session' = session /\ code' = code /\ wrote' = wrote
    BY <1>3 DEF browser, rows
  <2>2. QED
    BY <1>3, <2>1, KeepsIsQuiet
<1>4. ASSUME NEW fs \in Files, Import(h, fs) \/ ImportBatch(h, fs)
      PROVE  LoginStep
  BY <1>3, <1>4, ImportForm
<1>5. CASE Parse(h)
  BY <1>3, <1>5, ParseForm
<1>6. CASE Look(h)
  BY <1>3, <1>6, LookForm
<1>7. CASE WriteCodex(h) \/ WriteClaude(h)
  <2>1. PICK n \in Names : Put(h, n) /\ req[h].person \in People
    BY <1>7, WriteForm
  <2>2. session' = session /\ code' = code /\ req' = [req EXCEPT ![h] = Remaining(h)]
    BY <1>7, WriteForm
  <2>3. \A i \in Handlers : req'[i] = IF i = h THEN Remaining(h) ELSE req[i]
    BY <2>2 DEF BaseInv, TypeOK
  <2>4. Remaining(h).login = None
    BY RemainingKeeps
  <2>5. WritesLogin(h)
    BY <2>1, <2>2, <2>3, <2>4 DEF WritesLogin, Put
  <2>6. QED
    BY <2>5 DEF LoginStep
<1>8. CASE Dies(h)
  BY <1>8, DiesForm, IdleKeeps, KeepsIsQuiet DEF rows
<1>9. CASE Poll(h)
  <2>1. session' = session /\ code' = code /\ wrote' = wrote
    BY <1>9, PollForm DEF rows
  <2>2. req' = req \/ req' = [req EXCEPT ![h] = Polling]
    BY <1>9, PollForm
  <2>3. QED
    BY <2>1, <2>2, PollingKeeps, KeepsIsQuiet, SameIsQuiet
<1>10. CASE Ask(h)
  <2>1. session' = session /\ code' = code /\ wrote' = wrote
    BY <1>10, AskForm DEF rows
  <2>2. QED
    BY <1>10, <2>1, AskForm, KeepsIsQuiet
<1>11. CASE Update(h)
  <2>1. session' = session /\ code' = code /\ wrote' = wrote
    BY <1>11, UpdateForm DEF rows
  <2>2. QED
    BY <1>11, <2>1, UpdateForm, KeepsIsQuiet
<1>12. QED
  BY <1>1, <1>2, <1>4, <1>5, <1>6, <1>7, <1>8, <1>9, <1>10, <1>11 DEF Handle

LEMMA EveryLoginStep ==
  ASSUME BaseInv, [Next]_vars
  PROVE  LoginStep
<1>1. ASSUME NEW l \in Logins, Login(l) PROVE LoginStep
  BY <1>1, LoginIsQuiet
<1>2. ASSUME NEW h \in Handlers, Handle(h) PROVE LoginStep
  BY <1>2, HandleLogins
<1>3. CASE StartDevice \/ Decide \/ Rerender \/ CloseModal \/ LeaseExpires \/ DueAgain
             \/ DeviceExpires
  <2>1. session' = session /\ code' = code /\ wrote' = wrote
    BY <1>3 DEF StartDevice, Decide, Rerender, CloseModal, LeaseExpires, DueAgain,
                DeviceExpires, browser, rows
  <2>2. req' = req \/ \A i \in Handlers : Retimed(i)
    BY <1>3, RerenderForm, LeaseExpiresForm, DeviceExpiresForm
       DEF StartDevice, Decide, CloseModal, DueAgain
  <2>3. QED
    BY <2>1, <2>2, SameIsQuiet DEF Retimed
<1>4. ASSUME NEW n \in Names,
             GatewayReads(n) \/ GatewayPuts(n) \/ PatchCredential(n) \/ DeleteAccount(n)
      PROVE  LoginStep
  BY <1>4, OthersForm, SameIsQuiet
<1>5. CASE UNCHANGED vars
  BY <1>5, SameIsQuiet DEF vars
<1>6. QED
  BY <1>1, <1>2, <1>3, <1>4, <1>5 DEF Next

-----------------------------------------------------------------------------
(* A login is carried through once. *)

LEMMA OnceInit == Init => OnceInv
  BY SignInAssumption DEF Init, OnceInv, Idle, Gone

LEMMA OnceStep == BaseInv /\ OnceInv /\ [Next]_vars => OnceInv'
<1> SUFFICES ASSUME BaseInv, OnceInv, [Next]_vars, NEW l \in Logins
             PROVE  /\ session'[l].st # "gone" =>
                         wrote'[l] = 0 /\ \A h \in Handlers : req'[h].login # l
                    /\ wrote'[l] \in {0, 1}
                    /\ wrote'[l] = 1 => \A h \in Handlers : req'[h].login # l
                    /\ \A h, i \in Handlers :
                         req'[h].login = l /\ req'[i].login = l => h = i
  BY DEF OnceInv
<1>1. l # None
  BY SignInAssumption
<1>2. CASE QuietStep
  BY <1>1, <1>2 DEF QuietStep, OnceInv
<1>3. CASE \E h \in Handlers, m \in Logins : TakesLogin(h, m)
  <2>1. PICK h \in Handlers, m \in Logins : TakesLogin(h, m)
    BY <1>3
  <2>2. session'[l].st = IF l = m THEN "gone" ELSE session[l].st
    BY <2>1 DEF TakesLogin, BaseInv, TypeOK, Gone
  <2>3. QED
    BY <2>1, <2>2 DEF TakesLogin, OnceInv
<1>4. CASE \E h \in Handlers : WritesLogin(h)
  <2>1. PICK h \in Handlers : WritesLogin(h)
    BY <1>4
  <2>2. wrote'[l] = IF l = req[h].login THEN wrote[l] + 1 ELSE wrote[l]
    BY <2>1 DEF WritesLogin
  <2>3. QED
    BY <1>1, <2>1, <2>2 DEF WritesLogin, OnceInv
<1>5. QED
  BY <1>2, <1>3, <1>4, EveryLoginStep DEF LoginStep

\* A set that no two elements are in has at most one.
LEMMA AtMostOne ==
  ASSUME NEW S, \A x, y \in S : x = y
  PROVE  Cardinality(S) \in {0, 1} /\ (S = {} => Cardinality(S) = 0)
<1>1. CASE S = {}
  BY <1>1, FS_EmptySet
<1>2. CASE S # {}
  <2>1. PICK x : S = {x}
    BY <1>2
  <2>2. QED
    BY <1>2, <2>1, FS_Singleton
<1>3. QED
  BY <1>1, <1>2

LEMMA OnceImplies == OnceInv => LoginOnce
<1> SUFFICES ASSUME OnceInv, NEW l \in Logins
             PROVE  wrote[l] + Cardinality({h \in Handlers : req[h].login = l}) <= 1
  BY DEF LoginOnce
<1> DEFINE S == {h \in Handlers : req[h].login = l}
<1>1. \A x, y \in S : x = y
  BY DEF OnceInv
<1>2. wrote[l] \in {0, 1} /\ (wrote[l] = 1 => S = {})
  BY DEF OnceInv
<1> HIDE DEF S
<1>3. Cardinality(S) \in {0, 1} /\ (S = {} => Cardinality(S) = 0)
  BY <1>1, AtMostOne
<1>4. wrote[l] + Cardinality(S) <= 1
  BY <1>2, <1>3
<1>5. QED
  BY <1>4 DEF S

\* A login is carried through at most once (consumeJsonOnce): at any time it is
\* with its session, or with one handler, or written, or lost, for any number
\* of repeated, late and interleaved callbacks.
THEOREM LoginsAreOnce == Spec => []LoginOnce
<1>1. Spec => []OnceInv
  BY OnceInit, OnceStep, BaseIsInvariant, PTL DEF Spec
<1>2. QED
  BY <1>1, OnceImplies, PTL

-----------------------------------------------------------------------------
(* The gateway never undoes a sign-in. *)

\* Every step leaves the rows alone, writes one for a sign-in, or is the
\* gateway's or an operator's.
LEMMA RowSteps ==
  ASSUME BaseInv, [Next]_vars
  PROVE  \/ accounts' = accounts /\ gw' = gw
         \/ \E h \in Handlers, n \in Names : Put(h, n) /\ req[h].person \in People
         \/ \E n \in Names :
              GatewayReads(n) \/ GatewayPuts(n) \/ PatchCredential(n) \/ DeleteAccount(n)
<1> DEFINE Quiet == accounts' = accounts /\ gw' = gw
<1>1. ASSUME NEW l \in Logins, Login(l) PROVE Quiet
  BY <1>1 DEF Login, StartLogin, SessionExpires, Approve, rows
<1>2. ASSUME NEW h \in Handlers, Handle(h)
      PROVE  Quiet \/ WriteCodex(h) \/ WriteClaude(h)
  BY <1>2 DEF Handle, CodexCallback, ClaudeCallback, exchangeAuthorizationCode,
              exchangeClaudeCode, Exchanged, Import, ImportBatch, Poll, Parse, Look, Ask,
              Update, Dies, rows
<1>3. CASE StartDevice \/ Decide \/ Rerender \/ CloseModal \/ LeaseExpires \/ DueAgain
             \/ DeviceExpires
  BY <1>3 DEF StartDevice, Decide, Rerender, CloseModal, LeaseExpires, DueAgain,
              DeviceExpires, rows
<1>4. CASE UNCHANGED vars
  BY <1>4 DEF vars
<1>5. QED
  BY <1>1, <1>2, <1>3, <1>4, WriteForm DEF Next

LEMMA StaysStep == BaseInv /\ LoginStays /\ [Next]_vars => LoginStays'
<1> SUFFICES ASSUME BaseInv, LoginStays, [Next]_vars, NEW m \in Names,
                    accounts'[m] # None, gw'[m] # None, gw'[m].rev = accounts'[m].rev
             PROVE  gw'[m].secret >= accounts'[m].login
  BY DEF LoginStays
<1>1. /\ accounts \in [Names -> Row \union {None}] /\ gw \in [Names -> Credential \union {None}]
      /\ RowOK(m) /\ writes \in Nat
  BY DEF BaseInv, TypeOK, RowsOK
<1>2. CASE accounts' = accounts /\ gw' = gw
  BY <1>2 DEF LoginStays
<1>3. CASE \E h \in Handlers, n \in Names : Put(h, n) /\ req[h].person \in People
  <2>1. PICK h \in Handlers, n \in Names : Put(h, n) /\ req[h].person \in People
    BY <1>3
  <2> DEFINE b == [id |-> req[h].person, of |-> req[h].of]
  <2>2. gw' = gw /\ accounts'[m] = IF m = n THEN Upserted(n, b) ELSE accounts[m]
    BY <1>1, <2>1 DEF Put
  <2> HIDE DEF b
  <2>3. CASE m = n
    <3>1. /\ accounts[m] # None /\ gw[m].rev <= accounts[m].rev
          /\ accounts[m] \in Row /\ gw[m] \in Credential
      BY <1>1, <2>2 DEF RowOK
    <3>2. accounts'[m].rev = accounts[m].rev + 1
      BY <2>2, <2>3, <3>1 DEF Upserted
    <3>3. QED
      BY <2>2, <3>1, <3>2 DEF Row, Credential
  <2>4. QED
    BY <2>2, <2>3 DEF LoginStays
<1>4. CASE \E n \in Names :
             GatewayReads(n) \/ GatewayPuts(n) \/ PatchCredential(n) \/ DeleteAccount(n)
  <2>1. PICK n \in Names :
          GatewayReads(n) \/ GatewayPuts(n) \/ PatchCredential(n) \/ DeleteAccount(n)
    BY <1>4
  <2>2. CASE m # n
    BY <1>1, <2>1, <2>2 DEF LoginStays, GatewayReads, GatewayPuts, PatchCredential, DeleteAccount
  <2>3. CASE m = n
    <3>1. accounts[m] \in Row /\ accounts[m].login <= accounts[m].secret
          /\ accounts[m].secret <= writes
      BY <1>1, <2>1, <2>3 DEF RowOK, GatewayReads, GatewayPuts, PatchCredential, DeleteAccount
    <3>2. CASE GatewayReads(m)
      BY <1>1, <3>1, <3>2 DEF GatewayReads, Row
    <3>3. CASE GatewayPuts(m)
      <4>1. gw'[m].secret = writes + 1
        BY <1>1, <3>3 DEF GatewayPuts
      <4>2. accounts'[m].login = accounts[m].login
        BY <1>1, <3>1, <3>3 DEF GatewayPuts, Row
      <4>3. QED
        BY <1>1, <3>1, <4>1, <4>2 DEF Row
    <3>4. CASE PatchCredential(m)
      <4>1. /\ gw'[m] = gw[m] /\ accounts'[m].login = accounts[m].login
            /\ accounts'[m].rev = accounts[m].rev
        BY <1>1, <3>1, <3>4 DEF PatchCredential, Row
      <4>2. accounts[m] # None
        BY <3>4 DEF PatchCredential
      <4>3. QED
        BY <4>1, <4>2 DEF LoginStays
    <3>5. CASE DeleteAccount(m)
      BY <1>1, <3>5 DEF DeleteAccount
    <3>6. QED
      BY <2>1, <2>3, <3>2, <3>3, <3>4, <3>5
  <2>4. QED
    BY <2>2, <2>3
<1>5. QED
  BY <1>2, <1>3, <1>4, RowSteps

\* As long as the gateway's PUT of a refreshed credential would be accepted, it
\* works from the account's last sign-in or from what followed it: a sign-in
\* raises the revision of a row that is there, so a refresh of what it replaced
\* can no longer be stored over it.
THEOREM SignInsStay == Spec => []LoginStays
<1>1. Init => LoginStays
  BY DEF Init, LoginStays
<1>2. QED
  BY <1>1, StaysStep, BaseIsInvariant, PTL DEF Spec

-----------------------------------------------------------------------------
(* An account holds the credential of the identity it shows. *)

\* What the gateway would be let write back is the identity's own too.
OwnRow(n) ==
  (accounts[n] # None /\ ~accounts[n].foreign) =>
    /\ OwnBundle(accounts[n].cred, accounts[n].ext)
    /\ (gw[n] # None /\ gw[n].rev = accounts[n].rev) =>
         OwnBundle(gw[n].cred, accounts[n].ext)
OwnInv == \A n \in Names : OwnRow(n)

LEMMA OwnStep == BaseInv /\ OwnInv /\ [Next]_vars => OwnInv'
<1> SUFFICES ASSUME BaseInv, OwnInv, [Next]_vars, NEW m \in Names PROVE OwnRow(m)'
  BY DEF OwnInv
<1>1. /\ accounts \in [Names -> Row \union {None}] /\ gw \in [Names -> Credential \union {None}]
      /\ RowOK(m) /\ OwnRow(m)
      /\ accounts[m] # None => accounts[m] \in Row
      /\ gw[m] # None => gw[m] \in Credential
  BY DEF BaseInv, TypeOK, RowsOK, OwnInv
<1>2. CASE accounts'[m] = accounts[m] /\ gw'[m] = gw[m]
  BY <1>1, <1>2 DEF OwnRow, OwnBundle
<1>3. ASSUME NEW h \in Handlers, Put(h, m)
      PROVE  OwnRow(m)'
  <2> DEFINE b == [id |-> req[h].person, of |-> req[h].of]
  <2>1. gw'[m] = gw[m] /\ accounts'[m] = Upserted(m, b)
    BY <1>1, <1>3 DEF Put
  <2> HIDE DEF b
  <2>2. /\ accounts'[m].cred = b /\ accounts'[m].ext = b.id
        /\ accounts'[m].foreign = ~OwnBundle(b, b.id)
        /\ accounts[m] # None => accounts'[m].rev = accounts[m].rev + 1
    BY <2>1 DEF Upserted
  <2>3. gw'[m] # None => gw'[m].rev # accounts'[m].rev
    BY <1>1, <2>1, <2>2 DEF RowOK, Row, Credential
  <2>4. QED
    BY <2>2, <2>3 DEF OwnRow, OwnBundle
<1>4. CASE GatewayReads(m)
  <2>1. /\ accounts' = accounts /\ accounts[m] # None
        /\ gw'[m] = [rev |-> accounts[m].rev, secret |-> accounts[m].secret,
                     cred |-> accounts[m].cred]
    BY <1>1, <1>4 DEF GatewayReads
  <2>2. gw'[m].cred = accounts[m].cred
    BY <2>1
  <2>3. QED
    BY <1>1, <2>1, <2>2 DEF OwnRow, OwnBundle
<1>5. CASE GatewayPuts(m)
  <2>1. PICK b \in Fresh(gw[m].cred) :
          /\ accounts' = [accounts EXCEPT
               ![m].secret = writes + 1, ![m].rev = @ + 1, ![m].cred = b,
               ![m].ext = IF b.id = None THEN @ ELSE b.id]
          /\ gw' = [gw EXCEPT ![m] = [rev |-> accounts[m].rev + 1, secret |-> writes + 1,
                                      cred |-> b]]
    BY <1>5 DEF GatewayPuts
  <2>2. accounts[m] # None /\ gw[m] # None /\ gw[m].rev = accounts[m].rev
    BY <1>5 DEF GatewayPuts, SameRevision
  <2>3. accounts[m] \in Row /\ gw[m].cred \in Bundle
    BY <1>1, <2>2 DEF Credential
  <2>4. /\ accounts'[m].cred = b /\ gw'[m].cred = b
        /\ accounts'[m].ext = (IF b.id = None THEN accounts[m].ext ELSE b.id)
        /\ accounts'[m].foreign = accounts[m].foreign
    BY <1>1, <2>1, <2>3 DEF Row
  <2>5. SUFFICES ASSUME ~accounts[m].foreign PROVE OwnBundle(b, accounts'[m].ext)
    BY <2>4 DEF OwnRow, OwnBundle
  <2>6. OwnBundle(gw[m].cred, accounts[m].ext)
    BY <1>1, <2>2, <2>5 DEF OwnRow
  <2>7. b.id = gw[m].cred.id /\ \A p : gw[m].cred.of = {p} => b.of = {p}
    BY <2>1, <2>3, FreshType
  <2>8. QED
    BY <2>4, <2>6, <2>7 DEF OwnBundle
<1>6. CASE PatchCredential(m)
  <2>1. PICK b \in Pasted :
          accounts' = [accounts EXCEPT
            ![m].secret = writes + 1, ![m].cred = b,
            ![m].foreign = @ \/ ~OwnBundle(b, accounts[m].ext)]
    BY <1>6 DEF PatchCredential
  <2>2. accounts[m] # None /\ gw'[m] = gw[m]
    BY <1>6 DEF PatchCredential
  <2>3. /\ accounts'[m].cred = b /\ accounts'[m].ext = accounts[m].ext
        /\ accounts'[m].rev = accounts[m].rev
        /\ accounts'[m].foreign = (accounts[m].foreign \/ ~OwnBundle(b, accounts[m].ext))
    BY <1>1, <2>1, <2>2 DEF Row
  <2>4. QED
    BY <1>1, <2>2, <2>3 DEF OwnRow, OwnBundle
<1>7. CASE DeleteAccount(m)
  BY <1>1, <1>7 DEF DeleteAccount, OwnRow
<1>8. ASSUME NEW n \in Names, n # m,
             GatewayReads(n) \/ GatewayPuts(n) \/ PatchCredential(n) \/ DeleteAccount(n)
      PROVE  accounts'[m] = accounts[m] /\ gw'[m] = gw[m]
  BY <1>1, <1>8 DEF GatewayReads, GatewayPuts, PatchCredential, DeleteAccount
<1>9. ASSUME NEW h \in Handlers, NEW n \in Names, n # m, Put(h, n)
      PROVE  accounts'[m] = accounts[m] /\ gw'[m] = gw[m]
  BY <1>1, <1>9 DEF Put
<1>10. QED
  BY <1>2, <1>3, <1>4, <1>5, <1>6, <1>7, <1>8, <1>9, RowSteps

\* The identity an account shows is the one whose tokens it holds, whoever signs
\* in under it, re-authorizes it or has it deleted while the gateway refreshes it
\* and writes identity and tokens back -- unless an auth file that mixes owners,
\* or a patched credential, is what it was last given.  The PUT is accepted only
\* for the revision the gateway refreshed, and that revision holds what the
\* gateway works with to the row's identity.
THEOREM RowsHoldTheirOwn == Spec => []OwnCredential
<1>1. Init => OwnInv
  BY DEF Init, OwnInv, OwnRow
<1>2. OwnInv => OwnCredential
  BY DEF OwnInv, OwnRow, OwnCredential
<1>3. QED
  BY <1>1, <1>2, OwnStep, BaseIsInvariant, PTL DEF Spec

-----------------------------------------------------------------------------
(* One poll at a time. *)

LEMMA LeaseInit == Init => LeaseInv
  BY DEF Init, LeaseInv, Idle, Closed

\* A handler that was not polling still is not, or stops.
LEMMA LeaseCalm ==
  ASSUME BaseInv, LeaseInv, NEW h \in Handlers, NEW q, req' = [req EXCEPT ![h] = q],
         Calm(h, q), device' = device, overrun' = overrun, modal' = "off" => modal = "off"
  PROVE  LeaseInv'
<1>1. \A i \in Handlers : req'[i] = IF i = h THEN q ELSE req[i]
  BY DEF BaseInv, TypeOK
<1>2. ~q.leased /\ q.pc \notin {"ask", "update"}
  BY DEF Calm, LeaseInv
<1>3. QED
  BY <1>1, <1>2 DEF LeaseInv

LEMMA LeaseSame ==
  ASSUME LeaseInv, \A i \in Handlers : req'[i].pc = req[i].pc /\ req'[i].leased = req[i].leased,
         device' = device, overrun' = overrun, modal' = "off" => modal = "off"
  PROVE  LeaseInv'
  BY DEF LeaseInv

LEMMA LeaseHandle ==
  ASSUME BaseInv, LeaseInv, NEW h \in Handlers, Handle(h)
  PROVE  LeaseInv'
<1>1. ASSUME NEW l \in Logins, NEW c \in Logins \union {None},
             CodexCallback(h, l, c) \/ ClaudeCallback(h, l, c)
      PROVE  LeaseInv'
  <2>1. device' = device /\ overrun' = overrun /\ modal' = modal
    BY <1>1 DEF CodexCallback, ClaudeCallback, flow
  <2>2. UNCHANGED req \/ (c \in Logins /\ code[c] # None /\ req' = [req EXCEPT ![h] = Sent(l, c)])
    BY <1>1 DEF CodexCallback, ClaudeCallback, Redeem, Sent
  <2>3. c \in Logins /\ code[c] # None => Calm(h, Sent(l, c))
    BY SentOK DEF Calm
  <2>4. QED
    BY <2>1, <2>2, <2>3, LeaseCalm, LeaseSame
<1>2. CASE exchangeAuthorizationCode(h) \/ exchangeClaudeCode(h)
  <2>1. req[h].pc = "exchange" /\ Exchanged(h)
    BY <1>2 DEF exchangeAuthorizationCode, exchangeClaudeCode
  <2>2. device' = device /\ overrun' = overrun /\ modal' = modal
    BY <2>1, ExchangedForm DEF flow
  <2>3. req' = [req EXCEPT ![h] = Redeemed(h)] \/ req' = [req EXCEPT ![h] = Idle]
    BY <2>1, ExchangedForm
  <2>4. Calm(h, Redeemed(h))
    BY <2>1, RedeemedOK DEF Calm
  <2>5. QED
    BY <2>2, <2>3, <2>4, IdleKeeps, LeaseCalm
<1>3. ASSUME UNCHANGED flow, \E q : req' = [req EXCEPT ![h] = q] /\ Calm(h, q)
      PROVE  LeaseInv'
  <2>1. device' = device /\ overrun' = overrun /\ modal' = modal
    BY <1>3 DEF flow
  <2>2. QED
    BY <1>3, <2>1, LeaseCalm
<1>4. ASSUME NEW fs \in Files, Import(h, fs) \/ ImportBatch(h, fs)
      PROVE  LeaseInv'
  BY <1>3, <1>4, ImportForm
<1>5. CASE Parse(h)
  BY <1>3, <1>5, ParseForm
<1>6. CASE Look(h)
  BY <1>3, <1>6, LookForm
<1>7. CASE WriteCodex(h) \/ WriteClaude(h)
  BY <1>7, WriteForm, RemainingKeeps, LeaseCalm
<1>8. CASE Dies(h)
  BY <1>8, DiesForm, IdleKeeps, LeaseCalm
<1>9. CASE Poll(h)
  <2>1. overrun' = overrun /\ modal' # "off" /\ req[h].pc = "idle"
    BY <1>9, PollForm
  <2>2. CASE req' = req /\ device' = device
    BY <2>1, <2>2, LeaseSame
  <2>3. CASE /\ device.st = "open" /\ ~device.lease
             /\ device' = [device EXCEPT !.lease = TRUE]
             /\ req' = [req EXCEPT ![h] = Polling]
    <3>1. \A i \in Handlers : req'[i] = IF i = h THEN Polling ELSE req[i]
      BY <2>3 DEF BaseInv, TypeOK
    <3>2. /\ device'.lease /\ device'.ttl = device.ttl /\ device'.over = device.over
          /\ device'.st = device.st
      BY <2>3 DEF BaseInv, TypeOK, Device
    <3>3. ~device.over
      BY <2>3 DEF LeaseInv
    <3>4. ~overrun => \A i \in Handlers : ~req[i].leased
      BY <2>3 DEF LeaseInv
    <3>5. QED
      BY <2>1, <3>1, <3>2, <3>3, <3>4, PollingKeeps DEF LeaseInv
  <2>4. QED
    BY <1>9, <2>2, <2>3, PollForm
<1>10. CASE Ask(h)
  <2>1. device' = device /\ modal' = modal /\ overrun' = overrun /\ req[h].pc = "ask"
    BY <1>10, AskForm
  <2>2. PICK q : /\ req' = [req EXCEPT ![h] = q]
                 /\ q.pc = "update" /\ q.leased = req[h].leased
    BY <1>10, AskForm
  <2>3. \A i \in Handlers : req'[i] = IF i = h THEN q ELSE req[i]
    BY <2>2 DEF BaseInv, TypeOK
  <2>4. QED
    BY <2>1, <2>2, <2>3 DEF LeaseInv
<1>11. CASE Update(h)
  <2>1. /\ overrun' = overrun /\ req[h].pc = "update" /\ (modal' = "off" => modal = "off")
        /\ ~device'.lease /\ device'.ttl = device.ttl /\ device'.over = device.over
        /\ (device.over => device'.st = "gone")
    BY <1>11, UpdateForm
  <2>2. PICK q : /\ req' = [req EXCEPT ![h] = q]
                 /\ q.pc \notin {"ask", "update"} /\ ~q.leased
    BY <1>11, UpdateForm
  <2>3. \A i \in Handlers : req'[i] = IF i = h THEN q ELSE req[i]
    BY <2>2 DEF BaseInv, TypeOK
  <2>4. ~overrun => \A i \in Handlers : i # h => ~req[i].leased
    BY <2>1 DEF LeaseInv
  <2>5. QED
    BY <2>1, <2>2, <2>3, <2>4 DEF LeaseInv
<1>12. QED
  BY <1>1, <1>2, <1>4, <1>5, <1>6, <1>7, <1>8, <1>9, <1>10, <1>11 DEF Handle

LEMMA LeaseDevice ==
  ASSUME BaseInv, LeaseInv,
         StartDevice \/ Decide \/ Rerender \/ CloseModal \/ LeaseExpires \/ DueAgain
           \/ DeviceExpires
  PROVE  LeaseInv'
<1>0. device \in Device
  BY DEF BaseInv, TypeOK
<1>1. CASE StartDevice
  <2>1. modal = "off" /\ modal' = "waiting" /\ req' = req /\ overrun' = overrun
    BY <1>1 DEF StartDevice
  <2>2. device'.ttl /\ ~device'.over
    BY <1>1 DEF StartDevice, Closed
  <2>3. QED
    BY <2>1, <2>2 DEF LeaseInv
<1>2. CASE Decide \/ CloseModal
  BY <1>2, LeaseSame DEF Decide, CloseModal
<1>3. CASE Rerender
  BY <1>3, RerenderForm, LeaseSame DEF Rerender, Retimed
<1>4. CASE LeaseExpires
  <2>1. /\ overrun' = (overrun \/ \E h \in Handlers : req[h].leased) /\ modal' = modal
        /\ device' = [device EXCEPT !.lease = FALSE]
    BY <1>4 DEF LeaseExpires
  <2>2. device'.ttl = device.ttl /\ device'.over = device.over /\ device'.st = device.st
    BY <1>0, <2>1 DEF Device
  <2>3. \A i \in Handlers : req'[i].pc = req[i].pc /\ ~req'[i].leased
    BY <1>4, LeaseExpiresForm DEF Retimed
  <2>4. ~overrun' => ~overrun /\ \A i \in Handlers : ~req[i].leased
    BY <2>1
  <2>5. QED
    BY <2>1, <2>2, <2>3, <2>4 DEF LeaseInv
<1>5. CASE DueAgain
  <2>1. /\ overrun' = overrun /\ modal' = modal /\ req' = req
        /\ device' = [device EXCEPT !.due = TRUE]
    BY <1>5 DEF DueAgain
  <2>2. /\ device'.ttl = device.ttl /\ device'.over = device.over /\ device'.st = device.st
        /\ device'.lease = device.lease
    BY <1>0, <2>1 DEF Device
  <2>3. QED
    BY <2>1, <2>2 DEF LeaseInv
<1>6. CASE DeviceExpires
  <2>1. /\ overrun' = overrun /\ modal' = modal /\ modal # "off"
    BY <1>6 DEF DeviceExpires
  <2>2. /\ device'.ttl = device.ttl /\ device'.over /\ (device.ttl => device'.st = "gone")
        /\ \A i \in Handlers : /\ req'[i].pc = req[i].pc
                               /\ (req'[i].leased <=> (req[i].leased /\ ~device.ttl))
    BY <1>6, DeviceExpiresForm DEF Retimed
  <2>3. QED
    BY <2>1, <2>2 DEF LeaseInv
<1>7. QED
  BY <1>1, <1>2, <1>3, <1>4, <1>5, <1>6

LEMMA LeaseStep == BaseInv /\ LeaseInv /\ [Next]_vars => LeaseInv'
<1> SUFFICES ASSUME BaseInv, LeaseInv, [Next]_vars PROVE LeaseInv'
  OBVIOUS
<1>1. ASSUME NEW l \in Logins, Login(l) PROVE LeaseInv'
  BY <1>1, LeaseSame DEF Login, StartLogin, SessionExpires, Approve, flow
<1>2. ASSUME NEW h \in Handlers, Handle(h) PROVE LeaseInv'
  BY <1>2, LeaseHandle
<1>3. CASE StartDevice \/ Decide \/ Rerender \/ CloseModal \/ LeaseExpires \/ DueAgain
             \/ DeviceExpires
  BY <1>3, LeaseDevice
<1>4. ASSUME NEW n \in Names,
             GatewayReads(n) \/ GatewayPuts(n) \/ PatchCredential(n) \/ DeleteAccount(n)
      PROVE  LeaseInv'
  BY <1>4, OthersForm, LeaseSame
<1>5. CASE UNCHANGED vars
  BY <1>5, LeaseSame DEF vars
<1>6. QED
  BY <1>1, <1>2, <1>3, <1>4, <1>5 DEF Next

\* As long as no poll of the provider outlives its lease, the provider is asked
\* by one request at a time (leaseJsonWhenDue, updateLeasedJson): the lease is
\* taken in one script, and the only handler that gives it back is the one that
\* holds it.
THEOREM OnePollAtATime == Spec => []OnePoll
<1>1. Spec => []LeaseInv
  BY LeaseInit, LeaseStep, BaseIsInvariant, PTL DEF Spec
<1>2. LeaseInv => OnePoll
  <2> SUFFICES ASSUME LeaseInv, ~overrun
               PROVE  Cardinality({h \in Handlers : req[h].pc = "ask" /\ req[h].leased}) <= 1
    BY DEF OnePoll
  <2> DEFINE S == {h \in Handlers : req[h].pc = "ask" /\ req[h].leased}
  <2>1. \A x, y \in S : x = y
    BY DEF LeaseInv
  <2> HIDE DEF S
  <2>2. Cardinality(S) <= 1
    BY <2>1, AtMostOne
  <2>3. QED
    BY <2>2 DEF S
<1>3. QED
  BY <1>1, <1>2, PTL
=============================================================================
