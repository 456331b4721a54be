-------------------------- MODULE PublicationProofs --------------------------
(***************************************************************************)
(* Proofs about Publication, for any accounts, models, keys, gateways and  *)
(* operators, and any number of versions and secrets.                      *)
(***************************************************************************)
EXTENDS Publication, SequenceTheorems, WellFoundedInduction, TLAPS

-----------------------------------------------------------------------------
(* The inductive invariants. *)

\* An account that was never created has no revision; above 1 a revision is
\* counted up with the secret only.
AccountFine(x) ==
  /\ x.st = "new" => x.rev = 0
  /\ x.rev <= 1 \/ x.rev <= x.cred
AccountsFine == \A a \in Accounts : AccountFine(db[Acct(a)])

\* What a transaction will write over db: no account goes back.
Forward(d, w) ==
  \A a \in Accounts :
    Acct(a) \in DOMAIN w => /\ AccountFine(w[Acct(a)]) /\ w[Acct(a)].st # "new"
                            /\ d[Acct(a)].rev <= w[Acct(a)].rev

\* Row locks keep open transactions apart.
LocksOK ==
  /\ \A o \in Operators : op[o].pc = "idle" => op[o] = Idle
  /\ \A o \in Operators : Forward(db, op[o].w)
  /\ \A o, p \in Operators : o # p => DOMAIN op[o].w \cap DOMAIN op[p].w = {}

\* Before the server starts nobody has a transaction open or runs a version,
\* and there are no drafts.
BootOK ==
  boot # "serving" =>
    /\ \A o \in Operators : op[o].pc = "idle"
    /\ \A g \in Gateways : gw[g].run = None
    /\ Numbers("draft") = {} /\ Len(versions) <= 1

\* Every stored draft belongs to one open transaction.
OpenOK ==
  /\ \A o \in Operators :
       op[o].pc = "stored" => op[o].ver \in Numbers("open")
  /\ \A o, p \in Operators :
       op[o].pc = "stored" /\ op[p].pc = "stored" /\ o # p => op[o].ver # op[p].ver

TablesInv == TypeOK /\ AccountsFine /\ LocksOK /\ BootOK /\ OpenOK

\* Gateways run published versions.
RunsPublished ==
  \A g \in Gateways : gw[g].run # None => gw[g].run.ver \in Numbers("published")

\* The revisions a gateway runs are not ahead of the tables.
RunsKnown ==
  \A g \in Gateways :
    gw[g].run # None /\ gw[g].run.env = 2 =>
      \A a \in DOMAIN gw[g].run.revs : gw[g].run.revs[a] <= db[Acct(a)].rev

\* A version that routes only to what it carries.
RoutesInside(s) ==
  \A m \in DOMAIN s.routes : s.routes[m] # {} /\ s.routes[m] \subseteq DOMAIN s.revs
Contained(s) ==
  /\ RoutesInside(s)
  /\ \A m \in DOMAIN s.fbs : s.fbs[m] \in DOMAIN s.fbs \union {None}

\* A version that says what the tables d say.
Matches(s, d) ==
  /\ DOMAIN s.revs = On(d)
  /\ DOMAIN s.routes = Live(d)
  /\ \A m \in Live(d) : ~d[Model(m)].pool => s.routes[m] = Eligible(d, m)
  /\ \A m \in Live(d) : s.fbs[m] = d[Model(m)].fb
  /\ s.settings = d[Conf("settings")]

\* While no other transaction commits, what one has read stays true.
Calm(o) ==
  ~op[o].raced =>
    /\ op[o].pc = "reading" => DOMAIN op[o].revs = On(Overlay(op[o].w))
    /\ op[o].pc = "stored" =>
         /\ Contained(versions[op[o].ver].snap)
         /\ Matches(versions[op[o].ver].snap, Overlay(op[o].w))
Undisturbed == \A o \in Operators : Calm(o)

\* A row from before migration 002 routes inside itself; a version that can
\* be published and was compiled undisturbed is self-contained.
Holds(x) ==
  /\ x.schema = 1 => RoutesInside(x.snap)
  /\ (x.schema = 2 /\ x.status \in {"draft", "published"} /\ ~x.raced /\ x.src = 0) =>
       Contained(x.snap)
StoreOK == \A v \in 1..Len(versions) : Holds(versions[v])

ContentInv == Undisturbed /\ StoreOK

\* A draft of a transaction that nobody overlapped.
Exact(v) == ~versions[v].raced /\ versions[v].src = 0

\* The newest candidate says what the tables say; transactions that are still
\* open will commit newer ones.
DraftsOK ==
  /\ \A v \in Candidates :
       Exact(v) => \A o \in Operators : op[o].pc = "stored" => v < op[o].ver
  /\ \A v \in Candidates :
       (Exact(v) /\ \A w \in Candidates : w <= v) => Matches(versions[v].snap, db)

-----------------------------------------------------------------------------
(* Rows and writes. *)

LEMMA Bounds == MaxCred \in Nat /\ MaxCred >= 1 /\ MaxVersion \in Nat /\ MaxVersion >= 2
  BY ConstantsAssumption

LEMMA RowKinds ==
  /\ \A a \in Accounts : Acct(a) \in Rows /\ RowValues(Acct(a)) = AccountRow
  /\ \A a \in Accounts : Sees(a) \in Rows /\ RowValues(Sees(a)) = BOOLEAN
  /\ \A m \in Models : Model(m) \in Rows /\ RowValues(Model(m)) = ModelRow
  /\ \A m \in Models, a \in Accounts : Map(m, a) \in Rows /\ RowValues(Map(m, a)) = BOOLEAN
  /\ \A k \in Keys : Key(k) \in Rows /\ RowValues(Key(k)) = BOOLEAN
  /\ Conf("settings") \in Rows /\ RowValues(Conf("settings")) = Settings
  /\ Conf("mcp") \in Rows /\ RowValues(Conf("mcp")) = BOOLEAN
<1>1. \A a \in Accounts : Acct(a) \in Rows /\ RowValues(Acct(a)) = AccountRow
  <2>1. \A a : Acct(a)[1] = "acct" /\ Acct(a) # Conf("settings")
    BY DEF Acct, Conf
  <2>2. QED
    BY <2>1 DEF Rows, RowValues
<1>2. \A a \in Accounts : Sees(a) \in Rows /\ RowValues(Sees(a)) = BOOLEAN
  <2>1. \A a : Sees(a) # Conf("settings") /\ Sees(a)[1] = "sees"
    BY DEF Sees, Conf
  <2>2. QED
    BY <2>1 DEF Rows, RowValues
<1>3. \A m \in Models : Model(m) \in Rows /\ RowValues(Model(m)) = ModelRow
  <2>1. \A m : Model(m) # Conf("settings") /\ Model(m)[1] = "model"
    BY DEF Model, Conf
  <2>2. QED
    BY <2>1 DEF Rows, RowValues
<1>4. \A m \in Models, a \in Accounts : Map(m, a) \in Rows /\ RowValues(Map(m, a)) = BOOLEAN
  <2>1. \A m, a : Map(m, a) # Conf("settings") /\ Map(m, a)[1] = "map"
    BY DEF Map, Conf
  <2>2. QED
    BY <2>1 DEF Rows, RowValues
<1>5. \A k \in Keys : Key(k) \in Rows /\ RowValues(Key(k)) = BOOLEAN
  <2>1. \A k : Key(k) # Conf("settings") /\ Key(k)[1] = "key"
    BY DEF Key, Conf
  <2>2. QED
    BY <2>1 DEF Rows, RowValues
<1>6. Conf("settings") \in Rows /\ RowValues(Conf("settings")) = Settings
  BY DEF Rows, RowValues, Conf
<1>7. Conf("mcp") \in Rows /\ RowValues(Conf("mcp")) = BOOLEAN
  BY DEF Rows, RowValues, Conf
<1>8. QED
  BY <1>1, <1>2, <1>3, <1>4, <1>5, <1>6, <1>7

\* Rows of different tables, or of different keys, are different.
LEMMA RowsDiffer ==
  /\ \A a, b : Acct(a) = Acct(b) => a = b
  /\ \A a, b : Acct(a) # Sees(b) /\ Acct(a) # Model(b) /\ Acct(a) # Key(b) /\ Acct(a) # Conf(b)
  /\ \A a, m, b : Acct(a) # Map(m, b) /\ Sees(a) # Map(m, b)
  /\ \A a, b : Sees(a) # Model(b) /\ Sees(a) # Conf(b) /\ Sees(a) # Key(b)
<1>1. /\ \A a, b : Acct(a) = Acct(b) => a = b
      /\ \A a, b : Acct(a) # Sees(b) /\ Acct(a) # Model(b) /\ Acct(a) # Key(b) /\ Acct(a) # Conf(b)
  BY DEF Acct, Sees, Model, Key, Conf
<1>2. \A a, m, b : Acct(a) # Map(m, b) /\ Sees(a) # Map(m, b)
  BY DEF Acct, Sees, Map
<1>3. \A a, b : Sees(a) # Model(b) /\ Sees(a) # Conf(b) /\ Sees(a) # Key(b)
  BY DEF Sees, Model, Key, Conf
<1>4. QED
  BY <1>1, <1>2, <1>3

LEMMA OverAt ==
  ASSUME NEW f, NEW g
  PROVE  /\ DOMAIN Over(f, g) = DOMAIN f \union DOMAIN g
         /\ \A r \in DOMAIN f : Over(f, g)[r] = f[r]
         /\ \A r \in DOMAIN g \ DOMAIN f : Over(f, g)[r] = g[r]
BY DEF Over

LEMMA OverFacts ==
  ASSUME NEW f, NEW g
  PROVE  \E h : /\ h = Over(f, g) /\ DOMAIN h = DOMAIN f \union DOMAIN g
                /\ \A r \in DOMAIN f : h[r] = f[r]
                /\ \A r \in DOMAIN g \ DOMAIN f : h[r] = g[r]
<1>1. /\ DOMAIN Over(f, g) = DOMAIN f \union DOMAIN g
      /\ \A r \in DOMAIN f : Over(f, g)[r] = f[r]
      /\ \A r \in DOMAIN g \ DOMAIN f : Over(f, g)[r] = g[r]
  BY OverAt
<1>2. QED
  BY <1>1, Zenon

AllFine(d) == IsTables(d) /\ \A a \in Accounts : AccountFine(d[Acct(a)])
WriteFine(d, w) == IsWrites(w) /\ Forward(d, w)

LEMMA OverFine ==
  ASSUME NEW d, NEW f, NEW g, WriteFine(d, f), WriteFine(d, g)
  PROVE  WriteFine(d, Over(f, g))
<1>1. PICK h : /\ h = Over(f, g) /\ DOMAIN h = DOMAIN f \union DOMAIN g
               /\ \A r \in DOMAIN f : h[r] = f[r]
               /\ \A r \in DOMAIN g \ DOMAIN f : h[r] = g[r]
  BY OverFacts
<1>2. IsWrites(h)
  BY <1>1 DEF WriteFine, IsWrites
<1>3. Forward(d, h)
  BY <1>1 DEF WriteFine, Forward
<1>4. QED
  BY <1>1, <1>2, <1>3 DEF WriteFine

\* Writes of other tables.
LEMMA OtherWrites ==
  ASSUME NEW d, NEW w,
         \A r \in DOMAIN w : /\ r \in Rows /\ w[r] \in RowValues(r)
                             /\ \A a \in Accounts : r # Acct(a)
  PROVE  WriteFine(d, w)
  BY DEF WriteFine, IsWrites, Forward

LEMMA ModelWrites ==
  ASSUME NEW d, NEW w, \A r \in DOMAIN w : w[r] \in ModelRow,
         \A r \in DOMAIN w : \E m \in Models : r = Model(m)
  PROVE  WriteFine(d, w)
<1>1. \A r \in DOMAIN w : r \in Rows /\ w[r] \in RowValues(r) /\ \A a \in Accounts : r # Acct(a)
  BY RowKinds, RowsDiffer
<1>2. QED
  BY <1>1, OtherWrites

LEMMA MapWrites ==
  ASSUME NEW d, NEW w, \A r \in DOMAIN w : w[r] \in BOOLEAN,
         \A r \in DOMAIN w : \E m \in Models, a \in Accounts : r = Map(m, a)
  PROVE  WriteFine(d, w)
<1>1. \A r \in DOMAIN w : r \in Rows /\ w[r] \in RowValues(r) /\ \A a \in Accounts : r # Acct(a)
  BY RowKinds, RowsDiffer
<1>2. QED
  BY <1>1, OtherWrites

LEMMA SeesWrites ==
  ASSUME NEW d, NEW w, \A r \in DOMAIN w : w[r] \in BOOLEAN,
         \A r \in DOMAIN w : \E a \in Accounts : r = Sees(a)
  PROVE  WriteFine(d, w)
<1>1. \A r \in DOMAIN w : r \in Rows /\ w[r] \in RowValues(r) /\ \A a \in Accounts : r # Acct(a)
  BY RowKinds, RowsDiffer
<1>2. QED
  BY <1>1, OtherWrites

\* What the tables hold.
LEMMA TableFacts ==
  ASSUME NEW d, IsTables(d)
  PROVE  /\ \A a \in Accounts : d[Acct(a)] \in AccountRow /\ d[Sees(a)] \in BOOLEAN
         /\ \A m \in Models : d[Model(m)] \in ModelRow
         /\ \A m \in Models, a \in Accounts : d[Map(m, a)] \in BOOLEAN
         /\ \A k \in Keys : d[Key(k)] \in BOOLEAN
         /\ d[Conf("settings")] \in Settings /\ d[Conf("mcp")] \in BOOLEAN
         /\ DOMAIN d = Rows
<1>1. DOMAIN d = Rows /\ \A r \in Rows : d[r] \in RowValues(r)
  BY DEF IsTables, IsWrites
<1>2. \A a \in Accounts : d[Acct(a)] \in AccountRow /\ d[Sees(a)] \in BOOLEAN
  BY <1>1, RowKinds
<1>3. \A m \in Models : d[Model(m)] \in ModelRow
  BY <1>1, RowKinds
<1>4. \A m \in Models, a \in Accounts : d[Map(m, a)] \in BOOLEAN
  BY <1>1, RowKinds
<1>5. \A k \in Keys : d[Key(k)] \in BOOLEAN
  BY <1>1, RowKinds
<1>6. d[Conf("settings")] \in Settings /\ d[Conf("mcp")] \in BOOLEAN
  BY <1>1, RowKinds
<1>7. QED
  BY <1>1, <1>2, <1>3, <1>4, <1>5, <1>6

\* Committing fine writes leaves fine tables.
LEMMA CommitFine ==
  ASSUME NEW d, NEW w, AllFine(d), WriteFine(d, w)
  PROVE  /\ AllFine(Over(w, d))
         /\ \A a \in Accounts : d[Acct(a)].rev <= Over(w, d)[Acct(a)].rev
<1>1. PICK h : /\ h = Over(w, d) /\ DOMAIN h = DOMAIN w \union DOMAIN d
               /\ \A r \in DOMAIN w : h[r] = w[r]
               /\ \A r \in DOMAIN d \ DOMAIN w : h[r] = d[r]
  BY OverFacts
<1>2. DOMAIN d = Rows /\ DOMAIN w \subseteq Rows
  BY DEF AllFine, IsTables, WriteFine, IsWrites
<1>3. IsTables(h)
  BY <1>1, <1>2 DEF AllFine, IsTables, WriteFine, IsWrites
<1>4. ASSUME NEW a \in Accounts
      PROVE  AccountFine(h[Acct(a)]) /\ d[Acct(a)].rev <= h[Acct(a)].rev
  <2>1. CASE Acct(a) \in DOMAIN w
    BY <1>1, <2>1 DEF WriteFine, Forward
  <2>2. CASE Acct(a) \notin DOMAIN w
    <3>1. h[Acct(a)] = d[Acct(a)] /\ d[Acct(a)] \in AccountRow
      BY <1>1, <1>2, <2>2, RowKinds, TableFacts DEF AllFine
    <3>2. QED
      BY <3>1, Bounds DEF AllFine, AccountRow
  <2>3. QED
    BY <2>1, <2>2
<1>5. QED
  BY <1>1, <1>3, <1>4 DEF AllFine

-----------------------------------------------------------------------------
(* The changes write what the tables can hold, and no account goes back. *)

AccountNext(x, y) ==
  y \in AccountRow /\ AccountFine(y) /\ y.st # "new" /\ x.rev <= y.rev

LEMMA NewAccount ==
  ASSUME NEW x \in AccountRow, AccountFine(x), x.st = "new", NEW c \in {0, 1},
         NEW t \in {"on", "off"}
  PROVE  AccountNext(x, [st |-> t, cred |-> c, rev |-> 1])
  BY Bounds DEF AccountNext, AccountRow, AccountFine

LEMMA StateChange ==
  ASSUME NEW x \in AccountRow, AccountFine(x), NEW t \in {"on", "off", "gone"}
  PROVE  AccountNext(x, [x EXCEPT !.st = t])
<1>1. PICK y : y = [x EXCEPT !.st = t]
  OBVIOUS
<1>2. y \in AccountRow /\ y.st = t /\ y.rev = x.rev /\ y.cred = x.cred
  BY <1>1 DEF AccountRow
<1>3. x.rev \in Nat
  BY Bounds DEF AccountRow
<1>4. QED
  BY <1>1, <1>2, <1>3 DEF AccountNext, AccountFine

LEMMA SecretChange ==
  ASSUME NEW x \in AccountRow, AccountFine(x), x.st # "new", x.cred < MaxCred
  PROVE  AccountNext(x, [x EXCEPT !.cred = x.cred + 1])
<1>1. PICK y : y = [x EXCEPT !.cred = x.cred + 1]
  OBVIOUS
<1>2. x.cred + 1 \in 0..MaxCred /\ x.cred \in Nat /\ x.rev \in Nat
  BY Bounds DEF AccountRow
<1>3. y \in AccountRow /\ y.st = x.st /\ y.rev = x.rev /\ y.cred = x.cred + 1
  BY <1>1, <1>2 DEF AccountRow
<1>4. QED
  BY <1>1, <1>2, <1>3 DEF AccountNext, AccountFine

\* Writes of accounts.
LEMMA AccountNexts ==
  ASSUME NEW d, NEW w, \A r \in DOMAIN w : AccountNext(d[r], w[r]),
         \A r \in DOMAIN w : \E a \in Accounts : r = Acct(a)
  PROVE  WriteFine(d, w)
<1>1. IsWrites(w)
  BY RowKinds DEF IsWrites, AccountNext
<1>2. Forward(d, w)
  BY DEF Forward, AccountNext
<1>3. QED
  BY <1>1, <1>2 DEF WriteFine

LEMMA OneAccount ==
  ASSUME NEW d, NEW a \in Accounts, NEW y, AccountNext(d[Acct(a)], y)
  PROVE  WriteFine(d, Write(Acct(a), y))
<1>1. PICK w : w = Write(Acct(a), y)
  OBVIOUS
<1>2. DOMAIN w = {Acct(a)} /\ w[Acct(a)] = y
  BY <1>1 DEF Write
<1>3. QED
  BY <1>1, <1>2, AccountNexts

LEMMA OneOther ==
  ASSUME NEW d, NEW r \in Rows, NEW y \in RowValues(r), \A a \in Accounts : r # Acct(a)
  PROVE  WriteFine(d, Write(r, y))
<1>1. PICK w : w = Write(r, y)
  OBVIOUS
<1>2. DOMAIN w = {r} /\ w[r] = y
  BY <1>1 DEF Write
<1>3. QED
  BY <1>1, <1>2, OtherWrites

LEMMA CreateAccountsFine ==
  ASSUME NEW d, AllFine(d), NEW w \in CreateAccounts(d)
  PROVE  WriteFine(d, w)
<1> DEFINE fresh == {a \in Accounts : d[Acct(a)].st = "new"}
           row(c) == [st |-> "on", cred |-> c, rev |-> 1]
<1>1. \A a \in fresh, c \in {0, 1} : AccountNext(d[Acct(a)], row(c))
  BY TableFacts, NewAccount DEF AllFine
<1>2. CASE \E S \in SUBSET fresh : w = [r \in {Acct(a) : a \in S} |-> row(1)]
  <2>1. PICK S \in SUBSET fresh : w = [r \in {Acct(a) : a \in S} |-> row(1)]
    BY <1>2
  <2>2. \A r \in DOMAIN w : w[r] = row(1) /\ \E a \in fresh : r = Acct(a)
    BY <2>1
  <2> HIDE DEF row
  <2>3. QED
    BY <1>1, <2>2, AccountNexts
<1>3. CASE \E a \in fresh : w = Write(Acct(a), row(0))
  BY <1>1, <1>3, OneAccount
<1>4. QED
  BY <1>2, <1>3 DEF CreateAccounts

LEMMA PatchAccountFine ==
  ASSUME NEW d, AllFine(d), NEW w \in PatchAccount(d)
  PROVE  WriteFine(d, w)
<1> DEFINE there == {a \in Accounts : Exists(d, a)}
           other(a) == IF d[Acct(a)].st = "on" THEN "off" ELSE "on"
<1>1. \A a \in there : /\ d[Acct(a)] \in AccountRow /\ AccountFine(d[Acct(a)])
                       /\ d[Acct(a)].st # "new"
  BY TableFacts DEF AllFine, Exists
<1>2. CASE \E a \in there : w = Write(Acct(a), [d[Acct(a)] EXCEPT !.st = other(a)])
  BY <1>1, <1>2, StateChange, OneAccount
<1>3. CASE \E a \in there : /\ d[Acct(a)].cred < MaxCred
                            /\ w = Write(Acct(a), [d[Acct(a)] EXCEPT !.cred = d[Acct(a)].cred + 1])
  BY <1>1, <1>3, SecretChange, OneAccount
<1>4. QED
  BY <1>2, <1>3 DEF PatchAccount

LEMMA DeleteAccountsFine ==
  ASSUME NEW d, AllFine(d), NEW S \in SUBSET Accounts
  PROVE  WriteFine(d, DeleteAccounts(d, S))
<1> DEFINE orphan(m) == /\ d[Model(m)].st = "on"
                        /\ IF d[Model(m)].pool THEN Pooled(d) \subseteq S
                                               ELSE Mapped(d, m) \subseteq S
           mapped == {p \in Models \X S : d[Map(p[1], p[2])]}
           orphans == {n \in Models : orphan(n)}
           w1 == [r \in {Acct(a) : a \in S} |-> [d[r] EXCEPT !.st = "gone"]]
           w2 == [r \in {Sees(a) : a \in {b \in S : d[Sees(b)]}} |-> FALSE]
           w3 == [r \in {Map(p[1], p[2]) : p \in mapped} |-> FALSE]
           w4 == [r \in {Model(m) : m \in orphans} |-> [d[r] EXCEPT !.st = "off"]]
<1>1. WriteFine(d, w1)
  <2>1. \A a \in S : AccountNext(d[Acct(a)], [d[Acct(a)] EXCEPT !.st = "gone"])
    BY TableFacts, StateChange DEF AllFine
  <2>2. \A r \in DOMAIN w1 : /\ w1[r] = [d[r] EXCEPT !.st = "gone"]
                             /\ \E a \in S : r = Acct(a)
    OBVIOUS
  <2> HIDE DEF w1
  <2>3. QED
    BY <2>1, <2>2, AccountNexts
<1>2. WriteFine(d, w2)
  <2>1. \A r \in DOMAIN w2 : w2[r] \in BOOLEAN /\ \E a \in Accounts : r = Sees(a)
    OBVIOUS
  <2> HIDE DEF w2
  <2>2. QED
    BY <2>1, SeesWrites
<1>3. WriteFine(d, w3)
  <2>1. \A r \in DOMAIN w3 : w3[r] \in BOOLEAN /\ \E m \in Models, a \in Accounts : r = Map(m, a)
    OBVIOUS
  <2> HIDE DEF w3
  <2>2. QED
    BY <2>1, MapWrites
<1>4. WriteFine(d, w4)
  <2> HIDE DEF orphan
  <2>1. \A r \in DOMAIN w4 : /\ w4[r] = [d[r] EXCEPT !.st = "off"]
                             /\ \E m \in Models : r = Model(m)
    OBVIOUS
  <2>2. \A m \in Models : [d[Model(m)] EXCEPT !.st = "off"] \in ModelRow
    BY TableFacts DEF AllFine, ModelRow
  <2> HIDE DEF w4, orphans
  <2>3. QED
    BY <2>1, <2>2, ModelWrites
<1> HIDE DEF w1, w2, w3, w4
<1>5. WriteFine(d, Over(Over(Over(w1, w2), w3), w4))
  BY <1>1, <1>2, <1>3, <1>4, OverFine
<1>6. DeleteAccounts(d, S) = Over(Over(Over(w1, w2), w3), w4)
  BY DEF DeleteAccounts, w1, w2, w3, w4, ++
<1>7. QED
  BY <1>5, <1>6

LEMMA DeleteAccountFine ==
  ASSUME NEW d, AllFine(d), NEW w \in DeleteAccount(d)
  PROVE  WriteFine(d, w)
  BY DeleteAccountsFine DEF DeleteAccount

LEMMA DeleteProviderFine ==
  ASSUME NEW d, AllFine(d), NEW w \in DeleteProvider(d)
  PROVE  WriteFine(d, w)
<1> DEFINE gone == DeleteAccounts(d, {a \in Accounts : Exists(d, a)})
           pools == {Model(m) : m \in {n \in Models : d[Model(n)].pool}}
           w1 == [r \in pools |-> [d[r] EXCEPT !.pool = FALSE, !.st = "off"]]
<1>1. WriteFine(d, gone)
  BY DeleteAccountsFine
<1>2. WriteFine(d, w1)
  <2>1. ASSUME NEW r \in DOMAIN w1
        PROVE  w1[r] \in ModelRow /\ \E m \in Models : r = Model(m)
    <3>1. PICK m \in Models : r = Model(m)
      OBVIOUS
    <3>2. PICK x \in ModelRow : x = d[r]
      BY <3>1, TableFacts DEF AllFine
    <3>3. w1[r] = [x EXCEPT !.pool = FALSE, !.st = "off"]
      BY <3>2
    <3>4. [x EXCEPT !.pool = FALSE, !.st = "off"] \in ModelRow
      BY ONLY x \in ModelRow DEF ModelRow
    <3>5. QED
      BY <3>1, <3>3, <3>4
  <2> HIDE DEF w1
  <2>2. QED
    BY <2>1, ModelWrites
<1>3. w = Over(w1, gone)
  BY DEF DeleteProvider, ++
<1> HIDE DEF gone, w1
<1>4. QED
  BY <1>1, <1>2, <1>3, OverFine

LEMMA NewModelsFine ==
  ASSUME NEW d, NEW S \in SUBSET Models, NEW maps \in SUBSET (Models \X Accounts),
         NEW row \in ModelRow
  PROVE  WriteFine(d, NewModels(S, maps, row))
<1> DEFINE x == [r \in {Model(m) : m \in S} |-> row]
           y == [r \in {Map(p[1], p[2]) : p \in maps} |-> TRUE]
<1>1. WriteFine(d, x)
  <2>1. \A r \in DOMAIN x : x[r] = row /\ \E m \in Models : r = Model(m)
    OBVIOUS
  <2> HIDE DEF x
  <2>2. QED
    BY <2>1, ModelWrites
<1>2. WriteFine(d, y)
  <2>1. \A r \in DOMAIN y : y[r] = TRUE /\ \E p \in maps : r = Map(p[1], p[2])
    OBVIOUS
  <2> HIDE DEF y
  <2>2. \A p \in maps : p[1] \in Models /\ p[2] \in Accounts
    OBVIOUS
  <2>3. ASSUME NEW r \in DOMAIN y
        PROVE  y[r] \in BOOLEAN /\ \E m \in Models, a \in Accounts : r = Map(m, a)
    <3>1. PICK p \in maps : y[r] = TRUE /\ r = Map(p[1], p[2])
      BY <2>1, Zenon
    <3>2. PICK m, a : m = p[1] /\ a = p[2]
      OBVIOUS
    <3>3. m \in Models /\ a \in Accounts /\ r = Map(m, a)
      BY <2>2, <3>1, <3>2
    <3>4. QED
      BY <3>1, <3>3
  <2>4. QED
    BY <2>3, MapWrites
<1>3. NewModels(S, maps, row) = Over(x, y)
  BY DEF NewModels, ++
<1> HIDE DEF x, y
<1>4. QED
  BY <1>1, <1>2, <1>3, OverFine

LEMMA CreateModelsFine ==
  ASSUME NEW d, AllFine(d), NEW w, w \in CreateModel(d) \/ w \in CreateModelBatch(d)
  PROVE  WriteFine(d, w)
<1>1. CASE w \in CreateModel(d)
  <2>1. PICK A \in SUBSET {a \in Accounts : Exists(d, a)} :
          w \in UNION {ModelOn(d, A, row) : row \in NewRows(A)}
    BY <1>1, Zenon DEF CreateModel
  <2>2. PICK row \in NewRows(A) : w \in ModelOn(d, A, row)
    BY <2>1, Zenon
  <2>3. PICK m \in Free(d) : w = NewModels({m}, {m} \X A, row)
    BY <2>2, Zenon DEF ModelOn
  <2>4. {m} \in SUBSET Models /\ {m} \X A \in SUBSET (Models \X Accounts)
    BY DEF Free
  <2>5. row \in ModelRow
    BY DEF NewRows
  <2>6. QED
    BY <2>3, <2>4, <2>5, NewModelsFine
<1>2. CASE w \in CreateModelBatch(d)
  <2>1. PICK f \in Models \union {None} :
          w \in Batch(d, [st |-> "on", pool |-> FALSE, fb |-> f])
    BY <1>2, Zenon DEF CreateModelBatch
  <2>2. PICK row : row = [st |-> "on", pool |-> FALSE, fb |-> f]
    OBVIOUS
  <2>3. PICK maps \in (SUBSET (Free(d) \X On(d))) \ {{}} :
          w = NewModels({p[1] : p \in maps}, maps, row)
    BY <2>1, <2>2, Zenon DEF Batch
  <2>4. maps \in SUBSET (Models \X Accounts)
    BY DEF Free, On
  <2>5. {p[1] : p \in maps} \in SUBSET Models
    BY <2>4
  <2>6. row \in ModelRow
    BY <2>1, <2>2 DEF ModelRow
  <2>7. QED
    BY <2>3, <2>4, <2>5, <2>6, NewModelsFine
<1>3. QED
  BY <1>1, <1>2

LEMMA ImportSelectionFine ==
  ASSUME NEW d, AllFine(d), NEW w \in ImportSelection(d)
  PROVE  WriteFine(d, w)
<1>1. PICK m \in Models : w = Write(Model(m), [st |-> "on", pool |-> TRUE, fb |-> None])
  BY DEF ImportSelection
<1>2. [st |-> "on", pool |-> TRUE, fb |-> None] \in ModelRow
  BY DEF ModelRow
<1>3. QED
  BY <1>1, <1>2, RowKinds, RowsDiffer, OneOther

LEMMA PatchModelFine ==
  ASSUME NEW d, AllFine(d), NEW w \in PatchModel(d)
  PROVE  WriteFine(d, w)
<1> DEFINE there == {m \in Models : d[Model(m)].st # "absent"}
<1>1. \A m \in Models : d[Model(m)] \in ModelRow
  BY TableFacts DEF AllFine
<1>2. ASSUME NEW m \in Models, w = Toggled(d, m) PROVE WriteFine(d, w)
  <2>1. PICK x \in ModelRow : x = d[Model(m)]
    BY <1>1
  <2>2. PICK y : y = [x EXCEPT !.st = IF x.st = "on" THEN "off" ELSE "on"]
    OBVIOUS
  <2>3. y \in ModelRow
    BY <2>2 DEF ModelRow
  <2>4. w = Write(Model(m), y)
    BY <1>2, <2>1, <2>2 DEF Toggled
  <2>5. QED
    BY <2>3, <2>4, RowKinds, RowsDiffer, OneOther
<1>3. ASSUME NEW m \in Models, NEW f \in Models \union {None},
             w = Write(Model(m), [d[Model(m)] EXCEPT !.fb = f])
      PROVE  WriteFine(d, w)
  <2>1. [d[Model(m)] EXCEPT !.fb = f] \in ModelRow
    BY <1>1 DEF ModelRow
  <2>2. QED
    BY <1>3, <2>1, RowKinds, RowsDiffer, OneOther
<1>4. ASSUME NEW m \in Models, NEW A, w = Remapped(d, m, A)
      PROVE  WriteFine(d, w)
  <2>1. \A r \in DOMAIN w : w[r] \in BOOLEAN /\ \E n \in Models, a \in Accounts : r = Map(n, a)
    BY <1>4 DEF Remapped
  <2>2. QED
    BY <2>1, MapWrites
<1>5. CASE w \in {Toggled(d, m) : m \in there}
  BY <1>2, <1>5
<1>6. CASE w \in {Write(Model(m), [d[Model(m)] EXCEPT !.fb = f]) :
                    m \in there, f \in Models \union {None}}
  <2>1. PICK m \in there, f \in Models \union {None} :
          w = Write(Model(m), [d[Model(m)] EXCEPT !.fb = f])
    BY <1>6
  <2>2. QED
    BY <1>3, <2>1
<1>7. CASE w \in {Remapped(d, m, A) :
                    m \in there, A \in (SUBSET {a \in Accounts : Exists(d, a)}) \ {{}}}
  BY <1>4, <1>7
<1>8. QED
  BY <1>5, <1>6, <1>7 DEF PatchModel

LEMMA NoModelType == NoModel \in ModelRow
  BY DEF NoModel, ModelRow

LEMMA DeleteModelFine ==
  ASSUME NEW d, AllFine(d), NEW w \in DeleteModel(d)
  PROVE  WriteFine(d, w)
<1>1. PICK m \in Models :
        w = Over([r \in {Map(m, a) : a \in Mapped(d, m)} |-> FALSE], Write(Model(m), NoModel))
  BY DEF DeleteModel, ++
<1> DEFINE x == [r \in {Map(m, a) : a \in Mapped(d, m)} |-> FALSE]
<1>2. \A r \in DOMAIN x : x[r] \in BOOLEAN /\ \E n \in Models, a \in Accounts : r = Map(n, a)
  BY DEF Mapped
<1>3. WriteFine(d, Write(Model(m), NoModel))
  BY NoModelType, RowKinds, RowsDiffer, OneOther
<1> HIDE DEF x
<1>4. WriteFine(d, x)
  BY <1>2, MapWrites
<1>5. QED
  BY <1>1, <1>3, <1>4, OverFine DEF x

LEMMA RenameModelFine ==
  ASSUME NEW d, AllFine(d), NEW w \in RenameModel(d)
  PROVE  WriteFine(d, w)
<1>1. PICK m \in Models, n \in Models :
        w = Over(Over(Over([r \in {Map(m, a) : a \in Mapped(d, m)} |-> FALSE],
                           [r \in {Map(n, a) : a \in Mapped(d, m)} |-> TRUE]),
                      Write(Model(m), NoModel)),
                 Write(Model(n), d[Model(m)]))
  BY DEF RenameModel, ++
<1> DEFINE x == [r \in {Map(m, a) : a \in Mapped(d, m)} |-> FALSE]
           y == [r \in {Map(n, a) : a \in Mapped(d, m)} |-> TRUE]
<1>2. \A r \in DOMAIN x : x[r] \in BOOLEAN /\ \E k \in Models, a \in Accounts : r = Map(k, a)
  BY DEF Mapped
<1>3. \A r \in DOMAIN y : y[r] \in BOOLEAN /\ \E k \in Models, a \in Accounts : r = Map(k, a)
  BY DEF Mapped
<1>4. WriteFine(d, Write(Model(m), NoModel)) /\ WriteFine(d, Write(Model(n), d[Model(m)]))
  <2>1. d[Model(m)] \in ModelRow
    BY TableFacts DEF AllFine
  <2>2. QED
    BY <2>1, NoModelType, RowKinds, RowsDiffer, OneOther
<1> HIDE DEF x, y
<1>5. WriteFine(d, x) /\ WriteFine(d, y)
  BY <1>2, <1>3, MapWrites
<1>6. WriteFine(d, Over(Over(Over(x, y), Write(Model(m), NoModel)), Write(Model(n), d[Model(m)])))
  BY <1>4, <1>5, OverFine
<1>7. QED
  BY <1>1, <1>6 DEF x, y

LEMMA EditsFine ==
  ASSUME NEW d, AllFine(d), NEW w \in EditKey(d) \union EditMcp(d) \union EditSettings(d)
  PROVE  WriteFine(d, w)
<1>1. CASE \E k \in Keys : w = Write(Key(k), ~d[Key(k)])
  <2>1. PICK k \in Keys : w = Write(Key(k), ~d[Key(k)])
    BY <1>1
  <2>2. PICK b \in BOOLEAN : b = ~d[Key(k)]
    BY Zenon
  <2>3. QED
    BY <2>1, <2>2, RowKinds, RowsDiffer, OneOther
<1>2. CASE w = Write(Conf("mcp"), ~d[Conf("mcp")])
  <2>1. PICK b \in BOOLEAN : b = ~d[Conf("mcp")]
    BY Zenon
  <2>2. QED
    BY <1>2, <2>1, RowKinds, RowsDiffer, OneOther
<1>3. CASE \E x \in Settings : w = Write(Conf("settings"), x)
  BY <1>3, RowKinds, RowsDiffer, OneOther
<1>4. QED
  BY <1>1, <1>2, <1>3 DEF EditKey, EditMcp, EditSettings

LEMMA Membership ==
  ASSUME NEW X, NEW P, NEW w, w = [r \in X |-> r \in P]
  PROVE  \A r \in DOMAIN w : r \in X /\ w[r] \in BOOLEAN
  OBVIOUS

\* An import gives every account of the export an id that was never used.
LEMMA ImportFine ==
  ASSUME NEW d, AllFine(d), NEW b, IsTables(b), NEW w \in ImportSnapshot(d, b)
  PROVE  WriteFine(d, w)
<1> DEFINE old == {a \in Accounts : Exists(b, a)}
           fresh == {a \in Accounts : d[Acct(a)].st = "new"}
<1>1. PICK f \in Injection(old, fresh) : w = Imported(d, b, f)
  BY DEF ImportSnapshot
<1> DEFINE w1 == [r \in {Acct(x) : x \in Range(f)} |-> Renewed(b[Acct(AntiFunction(f)[r[2]])])]
           w2 == [r \in {Acct(a) : a \in {x \in Accounts : Exists(d, x)}} |->
                    [d[r] EXCEPT !.st = "gone"]]
           w3 == [r \in {Model(m) : m \in Models} |->
                    IF r[2] \in Manual(b) THEN b[r] ELSE NoModel]
           w4 == [r \in {Map(m, a) : m \in Models, a \in Accounts} |->
                    r \in {Map(p[1], f[p[2]]) : p \in ManualMaps(b)}]
           w5 == [r \in {Sees(a) : a \in Accounts} |-> FALSE]
           w6 == [r \in {Key(k) : k \in Keys} \union {Conf("settings")} |-> b[r]]
<1>2. WriteFine(d, w1)
  <2>1. f \in [old -> fresh] /\ DOMAIN f = old
    BY DEF Injection
  <2>2. ASSUME NEW r \in DOMAIN w1
        PROVE  AccountNext(d[r], w1[r]) /\ \E a \in Accounts : r = Acct(a)
    <3>1. PICK x \in Range(f) : r = Acct(x)
      OBVIOUS
    <3>2. x \in Accounts /\ d[r].st = "new" /\ d[r] \in AccountRow /\ AccountFine(d[r])
      BY <2>1, <3>1, TableFacts DEF Range, AllFine
    <3>3. r[2] = x
      BY <3>1 DEF Acct
    <3>4. AntiFunction(f)[x] \in old
      <4>1. \E a \in old : f[a] = x
        BY <2>1 DEF Range
      <4>2. QED
        BY <2>1, <4>1 DEF AntiFunction, Inverse
    <3>5. PICK a \in old : w1[r] = Renewed(b[Acct(a)])
      BY <3>3, <3>4
    <3>6. b[Acct(a)].st \in {"on", "off"}
      BY DEF Exists
    <3>7. PICK t \in {"on", "off"}, c \in {0, 1} : w1[r] = [st |-> t, cred |-> c, rev |-> 1]
      BY <3>5, <3>6 DEF Renewed
    <3> HIDE DEF w1
    <3>8. AccountNext(d[r], w1[r])
      BY <3>2, <3>7, NewAccount
    <3>9. QED
      BY <3>1, <3>2, <3>8
  <2> HIDE DEF w1
  <2>3. QED
    BY <2>2, AccountNexts
<1>3. WriteFine(d, w2)
  <2>1. \A a \in Accounts : AccountNext(d[Acct(a)], [d[Acct(a)] EXCEPT !.st = "gone"])
    BY TableFacts, StateChange DEF AllFine
  <2>2. \A r \in DOMAIN w2 : /\ w2[r] = [d[r] EXCEPT !.st = "gone"]
                             /\ \E a \in Accounts : r = Acct(a)
    OBVIOUS
  <2> HIDE DEF w2
  <2>3. QED
    BY <2>1, <2>2, AccountNexts
<1>4. WriteFine(d, w3)
  <2>1. \A r \in DOMAIN w3 : (w3[r] = b[r] \/ w3[r] = NoModel) /\ \E m \in Models : r = Model(m)
    OBVIOUS
  <2> HIDE DEF w3
  <2>2. \A m \in Models : b[Model(m)] \in ModelRow
    BY TableFacts
  <2>3. QED
    BY <2>1, <2>2, NoModelType, ModelWrites
<1>5. WriteFine(d, w4)
  <2> DEFINE X == {Map(m, a) : m \in Models, a \in Accounts}
             P == {Map(p[1], f[p[2]]) : p \in ManualMaps(b)}
  <2>1. \A r \in X : \E m \in Models, a \in Accounts : r = Map(m, a)
    OBVIOUS
  <2>2. w4 = [r \in X |-> r \in P]
    OBVIOUS
  <2> HIDE DEF X, P, w4
  <2>3. \A r \in DOMAIN w4 : r \in X /\ w4[r] \in BOOLEAN
    BY <2>2, Membership
  <2>4. QED
    BY <2>1, <2>3, MapWrites
<1>6. WriteFine(d, w5)
  <2>1. \A r \in DOMAIN w5 : w5[r] \in BOOLEAN /\ \E a \in Accounts : r = Sees(a)
    OBVIOUS
  <2> HIDE DEF w5
  <2>2. QED
    BY <2>1, SeesWrites
<1>7. WriteFine(d, w6)
  <2>1. \A r \in DOMAIN w6 : w6[r] = b[r] /\ (r = Conf("settings") \/ \E k \in Keys : r = Key(k))
    OBVIOUS
  <2> HIDE DEF w6
  <2>2. \A r \in DOMAIN w6 : r \in Rows /\ \A a \in Accounts : r # Acct(a)
    BY <2>1, RowKinds, RowsDiffer
  <2>3. \A r \in Rows : b[r] \in RowValues(r)
    BY DEF IsTables, IsWrites
  <2>4. QED
    BY <2>1, <2>2, <2>3, OtherWrites
<1>8. w = Over(Over(Over(Over(Over(w1, w2), w3), w4), w5), w6)
  BY <1>1 DEF Imported, ++
<1> HIDE DEF w1, w2, w3, w4, w5, w6
<1>9. QED
  BY <1>2, <1>3, <1>4, <1>5, <1>6, <1>7, <1>8, OverFine

LEMMA ChangesFine ==
  ASSUME AllFine(db), backup # None => IsTables(backup), NEW kind \in Edits,
         NEW w \in Changes(kind, db)
  PROVE  WriteFine(db, w)
<1>1. kind \in EditKinds
  BY ConstantsAssumption
<1>2. CASE kind = "create_accounts"
  BY <1>2, CreateAccountsFine DEF Changes
<1>3. CASE kind = "patch_account"
  BY <1>3, PatchAccountFine DEF Changes
<1>4. CASE kind = "delete_account"
  BY <1>4, DeleteAccountFine DEF Changes
<1>5. CASE kind = "delete_provider"
  BY <1>5, DeleteProviderFine DEF Changes
<1>6. CASE kind = "create_models"
  BY <1>6, CreateModelsFine DEF Changes
<1>7. CASE kind = "import_selection"
  BY <1>7, ImportSelectionFine DEF Changes
<1>8. CASE kind = "patch_model"
  BY <1>8, PatchModelFine DEF Changes
<1>9. CASE kind = "delete_model"
  BY <1>9, DeleteModelFine DEF Changes
<1>10. CASE kind = "rename_model"
  BY <1>10, RenameModelFine DEF Changes
<1>11. CASE kind \in {"key", "mcp", "settings"}
  BY <1>11, EditsFine DEF Changes
<1>12. CASE kind = "import"
  BY <1>12, ImportFine DEF Changes
<1>13. QED
  BY <1>1, <1>2, <1>3, <1>4, <1>5, <1>6, <1>7, <1>8, <1>9, <1>10, <1>11, <1>12 DEF EditKinds

-----------------------------------------------------------------------------
(* Snapshots, identities and versions. *)

LEMMA PartialIntro ==
  ASSUME NEW S, NEW T, NEW X \in SUBSET S, NEW f \in [X -> T]
  PROVE  f \in Partial(S, T)
  BY DEF Partial

LEMMA PartialElim ==
  ASSUME NEW S, NEW T, NEW f \in Partial(S, T)
  PROVE  DOMAIN f \in SUBSET S /\ \A x \in DOMAIN f : f[x] \in T
  BY DEF Partial

LEMMA PartialEmpty ==
  ASSUME NEW S, NEW T
  PROVE  <<>> \in Partial(S, T)
<1>1. <<>> \in [{} -> T]
  OBVIOUS
<1>2. QED
  BY <1>1, PartialIntro

LEMMA AccountNumbers ==
  ASSUME NEW d, IsTables(d), NEW a \in Accounts
  PROVE  d[Acct(a)].rev \in 0..MaxCred /\ d[Acct(a)].cred \in 0..MaxCred
  BY TableFacts DEF AccountRow

LEMMA RevisionsType ==
  ASSUME NEW d, IsTables(d)
  PROVE  Revisions(d) \in Partial(Accounts, 0..MaxCred)
<1>1. Revisions(d) \in [On(d) -> 0..MaxCred] /\ On(d) \in SUBSET Accounts
  BY AccountNumbers DEF Revisions, On
<1>2. QED
  BY <1>1, PartialIntro

LEMMA SnapshotType ==
  ASSUME NEW d, IsTables(d), NEW revs \in Partial(Accounts, 0..MaxCred)
  PROVE  Snapshot(revs, d) \in SnapshotRow
<1>1. \A m \in Models : Eligible(d, m) \in SUBSET Accounts
  BY DEF Eligible, Pooled, On, Mapped
<1>2. Live(d) \in SUBSET Models
  BY DEF Live
<1>3. [m \in Live(d) |-> Eligible(d, m)] \in Partial(Models, SUBSET Accounts)
  BY <1>1, <1>2, PartialIntro
<1>4. [m \in Live(d) |-> d[Model(m)].fb] \in Partial(Models, Models \union {None})
  <2>1. [m \in Live(d) |-> d[Model(m)].fb] \in [Live(d) -> Models \union {None}]
    BY <1>2, TableFacts DEF ModelRow
  <2>2. QED
    BY <1>2, <2>1, PartialIntro
<1>5. d[Conf("settings")] \in Settings /\ d[Conf("mcp")] \in BOOLEAN
  BY TableFacts
<1>6. QED
  BY <1>3, <1>4, <1>5 DEF Snapshot, SnapshotRow

LEMMA IdentityType ==
  ASSUME NEW d, IsTables(d), NEW s \in SnapshotRow, NEW v \in 1..MaxVersion
  PROVE  /\ Identity(v, s, d) \in IdentityRow /\ Identity(v, s, d).ver = v
         /\ LegacyIdentity(v, s, d) \in IdentityRow /\ LegacyIdentity(v, s, d).ver = v
<1>1. DOMAIN s.revs \in SUBSET Accounts
  BY PartialElim DEF SnapshotRow
<1>2. /\ [a \in DOMAIN s.revs |-> d[Acct(a)].rev] \in Partial(Accounts, 0..MaxCred)
      /\ [a \in DOMAIN s.revs |-> d[Acct(a)].cred] \in Partial(Accounts, 0..MaxCred)
  BY <1>1, AccountNumbers, PartialIntro
<1>3. (s.mcp \/ d[Conf("mcp")]) \in BOOLEAN
  OBVIOUS
<1>4. QED
  BY <1>2, <1>3, PartialEmpty DEF Identity, LegacyIdentity, IdentityRow

LEMMA NatOrder == IsWellFoundedOn({p \in Nat \X Nat : p[1] < p[2]}, Nat)
  BY NatLessThanWellFounded DEF OpToRel

\* A nonempty set of version numbers has a newest one.
LEMMA NewestFacts ==
  ASSUME NEW n \in Nat, NEW S \in SUBSET (1..n), S # {}
  PROVE  Newest(S) \in S /\ \A w \in S : w <= Newest(S)
<1> DEFINE T == {n - v : v \in S}
           R == {p \in Nat \X Nat : p[1] < p[2]}
<1>1. \A v \in S : v \in Nat /\ n - v \in Nat
  OBVIOUS
<1>2. T \subseteq Nat
  BY <1>1
<1>3. T # {}
  OBVIOUS
<1>4. PICK x \in T : \A y \in T : ~(<<y, x>> \in R)
  <2> HIDE DEF T, R
  <2>1. IsWellFoundedOn(R, Nat)
    BY NatOrder DEF R
  <2>2. QED
    BY <1>2, <1>3, <2>1, WFMin
<1>5. \A y \in T : ~(y < x)
  <2> HIDE DEF T
  <2>1. QED
    BY <1>2, <1>4
<1>6. PICK v \in S : x = n - v
  OBVIOUS
<1>7. \A w \in S : n - w \in T
  OBVIOUS
<1>8. \A w \in S : ~(n - w < n - v)
  BY <1>5, <1>6, <1>7
<1>9. \A w \in S : w <= v
  BY <1>1, <1>8
<1>10. QED
  BY <1>6, <1>9 DEF Newest

LEMMA VersionFacts ==
  ASSUME TypeOK
  PROVE  /\ Len(versions) \in Nat /\ DOMAIN versions = 1..Len(versions)
         /\ \A v \in 1..Len(versions) : versions[v] \in Version
         /\ \A t : Numbers(t) \in SUBSET (1..Len(versions))
         /\ 1..Len(versions) \subseteq 1..MaxVersion
<1>1. /\ Len(versions) \in Nat /\ DOMAIN versions = 1..Len(versions)
      /\ \A v \in 1..Len(versions) : versions[v] \in Version
  BY LenProperties, ElementOfSeq DEF TypeOK
<1>2. \A t : Numbers(t) \in SUBSET (1..Len(versions))
  BY DEF Numbers
<1>3. 1..Len(versions) \subseteq 1..MaxVersion
  BY <1>1, Bounds DEF TypeOK
<1>4. QED
  BY <1>1, <1>2, <1>3

-----------------------------------------------------------------------------
(* The gateways. *)

FleetOK ==
  /\ gw \in [Gateways -> Gateway]
  /\ instance \in [Gateways -> [active : BOOLEAN, env : {1, 2}]]
  /\ lastAck \in [Gateways -> {"none", "adopted", "adopted1", "rejected"}]

LEMMA FleetOnly ==
  ASSUME TablesInv, db' = db, versions' = versions, op' = op, boot' = boot,
         backup' = backup, FleetOK',
         boot # "serving" => \A g \in Gateways : gw'[g].run = None
  PROVE  TablesInv'
<1>1. TypeOK'
  BY DEF TablesInv, TypeOK, FleetOK
<1>2. AccountsFine' /\ LocksOK'
  BY DEF TablesInv, AccountsFine, LocksOK
<1>3. BootOK' /\ OpenOK'
  BY DEF TablesInv, BootOK, OpenOK, Numbers
<1>4. QED
  BY <1>1, <1>2, <1>3 DEF TablesInv

\* The endpoint answers with the newest published version.
LEMMA AnswersFacts ==
  ASSUME TypeOK, NEW g, NEW id \in Answers(g)
  PROVE  /\ id \in IdentityRow
         /\ id.ver \in Numbers("published") /\ \A w \in Numbers("published") : w <= id.ver
         /\ id.env = 2 => id = Identity(id.ver, versions[id.ver].snap, db)
<1> DEFINE v == Newest(Numbers("published"))
<1>1. Numbers("published") # {}
  BY DEF Answers
<1>2. v \in Numbers("published") /\ \A w \in Numbers("published") : w <= v
  BY <1>1, NewestFacts, VersionFacts
<1>3. v \in 1..MaxVersion /\ versions[v].snap \in SnapshotRow
  BY <1>2, VersionFacts DEF Version
<1>4. \/ id = Identity(v, versions[v].snap, db)
      \/ id = LegacyIdentity(v, versions[v].snap, db) /\ id.env = 1
  BY <1>1 DEF Answers, LegacyIdentity
<1> HIDE DEF v
<1>5. id \in IdentityRow /\ id.ver = v
  BY <1>3, <1>4, IdentityType DEF TypeOK
<1>6. QED
  BY <1>2, <1>4, <1>5

\* What a step of a gateway does to what it runs.
LEMMA ServeMoves ==
  ASSUME TablesInv, NEW g \in Gateways, Serve(g)
  PROVE  /\ db' = db /\ versions' = versions /\ op' = op /\ boot' = boot /\ backup' = backup
         /\ FleetOK'
         /\ \A h \in Gateways \ {g} : gw'[h].run = gw[h].run
         /\ \/ gw'[g].run = gw[g].run
            \/ gw'[g].run = None
            \/ boot = "serving" /\ gw'[g].run \in Answers(g)
<1>1. /\ gw \in [Gateways -> Gateway]
      /\ instance \in [Gateways -> [active : BOOLEAN, env : {1, 2}]]
      /\ lastAck \in [Gateways -> {"none", "adopted", "adopted1", "rejected"}]
  BY DEF TablesInv, TypeOK
<1>2. PICK q \in Gateway : q = gw[g]
  BY <1>1
<1> DEFINE Moves(y) == \/ y.run = q.run
                       \/ y.run = None
                       \/ boot = "serving" /\ y.run \in Answers(g)
<1>3. db' = db /\ versions' = versions /\ op' = op /\ boot' = boot /\ backup' = backup
  BY DEF Serve, Start, Crash, Heartbeat, Expire, Fetch, FetchFails, Ack, AckFails, control
<1>4. Seen(g) \in [active : BOOLEAN, env : {1, 2}]
  BY DEF Seen
<1>5. /\ instance' \in [Gateways -> [active : BOOLEAN, env : {1, 2}]]
      /\ lastAck' \in [Gateways -> {"none", "adopted", "adopted1", "rejected"}]
  <2>1. CASE Start(g) \/ Crash(g) \/ AckFails(g)
    BY <1>1, <2>1 DEF Start, Crash, AckFails
  <2>2. CASE Heartbeat(g) \/ FetchFails(g) \/ Fetch(g)
    <3>1. lastAck' = lastAck /\ (instance' = instance \/ instance' = [instance EXCEPT ![g] = Seen(g)])
      BY <2>2 DEF Heartbeat, FetchFails, Fetch
    <3>2. QED
      BY <1>1, <1>4, <3>1
  <2>3. CASE Expire(g)
    BY <1>1, <2>3 DEF Expire
  <2>4. CASE Ack(g)
    BY <1>1, <2>4 DEF Ack, AckStatus
  <2>5. QED
    BY <2>1, <2>2, <2>3, <2>4 DEF Serve
<1>6. \E y \in Gateway : gw' = [gw EXCEPT ![g] = y] /\ Moves(y)
  <2>1. \A new \in BOOLEAN : Booted(new) \in Gateway /\ Booted(new).run = None
    BY DEF Booted, Gateway
  <2>2. CASE Start(g)
    <3>1. PICK new \in {gw[g].new, TRUE} : gw' = [gw EXCEPT ![g] = Booted(new)]
      BY <2>2, Zenon DEF Start
    <3>2. q.new \in BOOLEAN
      BY DEF Gateway
    <3>3. new \in BOOLEAN
      BY <1>2, <3>1, <3>2
    <3>4. QED
      BY <2>1, <3>1, <3>3
  <2>3. CASE Crash(g)
    <3>1. PICK y : y = [Booted(q.new) EXCEPT !.pc = "down"]
      OBVIOUS
    <3>2. y \in Gateway /\ y.run = None
      BY <2>1, <3>1 DEF Gateway
    <3>3. QED
      BY <1>2, <2>3, <3>1, <3>2 DEF Crash
  <2>4. CASE Heartbeat(g)
    <3>1. PICK y : y = [q EXCEPT !.pc = "fetch"]
      OBVIOUS
    <3>2. y \in Gateway /\ y.run = q.run
      BY <3>1 DEF Gateway
    <3>3. QED
      BY <1>2, <2>4, <3>1, <3>2 DEF Heartbeat
  <2>5. CASE Expire(g)
    <3>1. gw' = [gw EXCEPT ![g] = q]
      BY <1>1, <1>2, <2>5 DEF Expire
    <3>2. QED
      BY <3>1
  <2>6. CASE Fetch(g)
    <3>1. boot = "serving"
      BY <2>6 DEF Fetch
    <3>2. PICK id \in Answers(g) :
            gw' = [gw EXCEPT ![g] =
                     IF ~Builds(versions[id.ver].snap)
                     THEN [q EXCEPT !.pc = "nack", !.got = id]
                     ELSE IF id = q.cur THEN [q EXCEPT !.pc = "beat"]
                     ELSE [q EXCEPT !.pc = "ack", !.got = id, !.run = id]]
      BY <1>2, <2>6 DEF Fetch
    <3>3. id \in IdentityRow
      BY AnswersFacts DEF TablesInv
    <3>4. PICK y1, y2, y3 : /\ y1 = [q EXCEPT !.pc = "nack", !.got = id]
                            /\ y2 = [q EXCEPT !.pc = "beat"]
                            /\ y3 = [q EXCEPT !.pc = "ack", !.got = id, !.run = id]
      OBVIOUS
    <3>5. /\ y1 \in Gateway /\ y1.run = q.run
          /\ y2 \in Gateway /\ y2.run = q.run
          /\ y3 \in Gateway /\ y3.run = id
      BY <3>3, <3>4 DEF Gateway
    <3>6. \/ gw' = [gw EXCEPT ![g] = y1]
          \/ gw' = [gw EXCEPT ![g] = y2]
          \/ gw' = [gw EXCEPT ![g] = y3]
      BY <3>2, <3>4
    <3>7. QED
      BY <3>1, <3>5, <3>6
  <2>7. CASE FetchFails(g)
    <3>1. PICK y : y = [q EXCEPT !.pc = "beat"]
      OBVIOUS
    <3>2. y \in Gateway /\ y.run = q.run
      BY <3>1 DEF Gateway
    <3>3. QED
      BY <1>2, <2>7, <3>1, <3>2 DEF FetchFails
  <2>8. CASE Ack(g)
    <3>1. PICK heard \in BOOLEAN :
            gw' = [gw EXCEPT ![g] = [q EXCEPT !.pc = "beat", !.got = None,
                                     !.cur = IF heard /\ q.pc = "ack" THEN q.got ELSE q.cur]]
      BY <1>2, <2>8 DEF Ack
    <3>2. PICK c \in IdentityRow \union {None} :
            c = IF heard /\ q.pc = "ack" THEN q.got ELSE q.cur
      BY DEF Gateway
    <3>3. PICK y : y = [q EXCEPT !.pc = "beat", !.got = None, !.cur = c]
      OBVIOUS
    <3>4. y \in Gateway /\ y.run = q.run
      BY <3>3 DEF Gateway
    <3>5. QED
      BY <3>1, <3>2, <3>3, <3>4
  <2>9. CASE AckFails(g)
    <3>1. gw' = [gw EXCEPT ![g] = [q EXCEPT !.pc = "beat", !.got = None]]
      BY <1>2, <2>9 DEF AckFails
    <3>2. PICK y : y = [q EXCEPT !.pc = "beat", !.got = None]
      OBVIOUS
    <3>3. y \in Gateway /\ y.run = q.run
      BY <3>2 DEF Gateway
    <3>4. QED
      BY <3>1, <3>2, <3>3
  <2>10. QED
    BY <2>2, <2>3, <2>4, <2>5, <2>6, <2>7, <2>8, <2>9 DEF Serve
<1>7. PICK y \in Gateway : gw' = [gw EXCEPT ![g] = y] /\ Moves(y)
  BY <1>6
<1>8. gw' \in [Gateways -> Gateway] /\ gw'[g] = y /\ \A h \in Gateways \ {g} : gw'[h] = gw[h]
  BY <1>1, <1>7
<1>9. QED
  BY <1>2, <1>3, <1>5, <1>7, <1>8 DEF FleetOK

LEMMA ServeTables ==
  ASSUME TablesInv, NEW g \in Gateways, Serve(g)
  PROVE  TablesInv'
<1>1. boot # "serving" => \A h \in Gateways : gw'[h].run = None
  BY ServeMoves DEF TablesInv, BootOK
<1>2. QED
  BY <1>1, ServeMoves, FleetOnly

-----------------------------------------------------------------------------
(* The control plane. *)

\* A version stored under the next number.
LEMMA VersionAppend ==
  ASSUME TypeOK, Len(versions) < MaxVersion, NEW x \in Version,
         versions' = Append(versions, x)
  PROVE  /\ versions' \in Seq(Version) /\ Len(versions') = Len(versions) + 1
         /\ Len(versions') <= MaxVersion
         /\ versions'[Len(versions) + 1] = x
         /\ \A v \in 1..Len(versions) : versions'[v] = versions[v]
         /\ \A t : Numbers(t)' = Numbers(t) \union {v \in {Len(versions) + 1} : x.status = t}
<1>1. versions \in Seq(Version) /\ Len(versions) \in Nat
  BY VersionFacts DEF TypeOK
<1>2. /\ versions' \in Seq(Version) /\ Len(versions') = Len(versions) + 1
      /\ versions'[Len(versions) + 1] = x
      /\ \A v \in 1..Len(versions) : versions'[v] = versions[v]
  BY <1>1, AppendProperties
<1>3. Len(versions') <= MaxVersion
  BY <1>1, <1>2, Bounds
<1>4. ASSUME NEW t
      PROVE  Numbers(t)' = Numbers(t) \union {v \in {Len(versions) + 1} : x.status = t}
  <2>1. 1..Len(versions') = 1..Len(versions) \union {Len(versions) + 1}
    BY <1>1, <1>2
  <2>2. Numbers(t)' = {v \in 1..Len(versions') : versions'[v].status = t}
    BY DEF Numbers
  <2>3. Len(versions) + 1 \notin 1..Len(versions)
    BY <1>1
  <2>4. QED
    BY <1>2, <2>1, <2>2, <2>3 DEF Numbers
<1>5. QED
  BY <1>2, <1>3, <1>4

\* A version that is rewritten.
LEMMA VersionChange ==
  ASSUME TypeOK, NEW v \in 1..Len(versions), NEW x \in Version,
         versions' = [versions EXCEPT ![v] = x]
  PROVE  /\ versions' \in Seq(Version) /\ Len(versions') = Len(versions)
         /\ Len(versions') <= MaxVersion
         /\ versions'[v] = x
         /\ \A w \in 1..Len(versions) \ {v} : versions'[w] = versions[w]
         /\ \A t : Numbers(t)' = (Numbers(t) \ {v}) \union {w \in {v} : x.status = t}
<1>1. versions \in Seq(Version) /\ Len(versions) \in Nat
  BY VersionFacts DEF TypeOK
<1>2. /\ versions' \in Seq(Version) /\ Len(versions') = Len(versions)
      /\ \A w \in 1..Len(versions) : versions'[w] = IF w = v THEN x ELSE versions[w]
  BY <1>1, ExceptSeq
<1>3. Len(versions') <= MaxVersion
  BY <1>2 DEF TypeOK
<1>4. ASSUME NEW t
      PROVE  Numbers(t)' = (Numbers(t) \ {v}) \union {w \in {v} : x.status = t}
  <2>1. Numbers(t)' = {w \in 1..Len(versions') : versions'[w].status = t}
    BY DEF Numbers
  <2>2. QED
    BY <1>2, <2>1 DEF Numbers
<1>5. QED
  BY <1>2, <1>3, <1>4

LEMMA IdleType ==
  /\ IsTransaction(Idle) /\ DOMAIN Idle.w = {} /\ Idle.pc = "idle" /\ ~Idle.raced
  /\ \A d : Forward(d, Idle.w)
<1>1. Idle.w = <<>> /\ Idle.pc = "idle" /\ Idle.raced = FALSE
  BY DEF Idle
<1>2. DOMAIN Idle.w = {}
  BY <1>1
<1>3. <<>> \in Partial(Accounts, 0..MaxCred)
  BY PartialEmpty
<1>4. IsTransaction(Idle)
  BY <1>2, <1>3, Bounds DEF Idle, IsTransaction, IsWrites
<1>5. QED
  BY <1>1, <1>2, <1>4 DEF Forward

LEMMA FineTables ==
  ASSUME TablesInv
  PROVE  AllFine(db) /\ \A o \in Operators : WriteFine(db, op[o].w)
  BY DEF TablesInv, TypeOK, AccountsFine, AllFine, LocksOK, WriteFine, IsTransaction

LEMMA OverlayFine ==
  ASSUME TablesInv, NEW w, WriteFine(db, w)
  PROVE  /\ AllFine(Overlay(w)) /\ IsTables(Overlay(w))
         /\ \A a \in Accounts : db[Acct(a)].rev <= Overlay(w)[Acct(a)].rev
<1>1. Overlay(w) = Over(w, db)
  BY DEF Overlay, ++
<1>2. QED
  BY <1>1, FineTables, CommitFine DEF AllFine

\* Steps that leave the tables alone.
LEMMA VersionsOnly ==
  ASSUME TablesInv, db' = db, op' = op, UNCHANGED fleet, boot' = boot,
         backup' = backup \/ backup' = db,
         versions' \in Seq(Version), Len(versions') <= MaxVersion,
         Numbers("open") \subseteq Numbers("open")', boot = "serving"
  PROVE  TablesInv'
<1>1. TypeOK'
  BY DEF TablesInv, TypeOK, fleet
<1>2. AccountsFine' /\ LocksOK'
  BY DEF TablesInv, AccountsFine, LocksOK
<1>3. BootOK' /\ OpenOK'
  BY DEF TablesInv, BootOK, OpenOK
<1>4. QED
  BY <1>1, <1>2, <1>3 DEF TablesInv

LEMMA ExportTables ==
  ASSUME TablesInv, Export
  PROVE  TablesInv'
<1>1. versions' = versions /\ Numbers("open")' = Numbers("open")
  BY DEF Export, Numbers
<1>2. QED
  BY <1>1, VersionsOnly DEF Export, TablesInv, TypeOK

LEMMA CompiledType ==
  ASSUME NEW d, IsTables(d), NEW revs \in Partial(Accounts, 0..MaxCred),
         NEW src \in 0..MaxVersion, NEW t \in {"open", "published"}
  PROVE  [status |-> t, src |-> src, schema |-> 2, raced |-> FALSE,
          snap |-> Snapshot(revs, d)] \in Version
<1>1. Snapshot(revs, d) \in SnapshotRow
  BY SnapshotType
<1>2. QED
  BY <1>1 DEF Version

\* A publish moves the newest candidate, or stores a version of its own.
LEMMA PublishFacts ==
  ASSUME TablesInv, Publish
  PROVE  /\ versions' \in Seq(Version) /\ Len(versions') <= MaxVersion
         /\ \A t \in {"open", "invalid", "aborted"} : Numbers(t)' = Numbers(t)
         /\ \E v \in 1..MaxVersion :
              /\ \A w \in Numbers("published") : w < v
              /\ Numbers("published")' = Numbers("published") \union {v}
<1>1. TypeOK
  BY DEF TablesInv
<1>2. CASE Candidates # {}
  <2> DEFINE v == Newest(Candidates)
  <2>1. v \in Candidates
    <3>1. Candidates \in SUBSET (1..Len(versions)) /\ Len(versions) \in Nat
      BY <1>1, VersionFacts DEF Candidates
    <3>2. QED
      BY <1>2, <3>1, NewestFacts
  <2>2. v \in Numbers("draft") /\ \A w \in Numbers("published") : w < v
    BY <2>1 DEF Candidates
  <2>3. versions' = [versions EXCEPT ![v].status = "published"]
    BY <1>2 DEF Publish
  <2> HIDE DEF v
  <2>4. v \in 1..Len(versions) /\ v \in 1..MaxVersion /\ versions[v].status = "draft"
    BY <1>1, <2>2, VersionFacts DEF Numbers
  <2>5. PICK x : x = [versions[v] EXCEPT !.status = "published"]
    OBVIOUS
  <2>6. x \in Version /\ x.status = "published"
    <3>1. versions[v] \in Version
      BY <1>1, <2>4, VersionFacts
    <3>2. QED
      BY <2>5, <3>1 DEF Version
  <2>7. versions' = [versions EXCEPT ![v] = x]
    BY <2>3, <2>5
  <2>8. /\ versions' \in Seq(Version) /\ Len(versions') <= MaxVersion
        /\ \A t : Numbers(t)' = (Numbers(t) \ {v}) \union {w \in {v} : x.status = t}
    BY <1>1, <2>4, <2>6, <2>7, VersionChange
  <2>9. \A t \in {"open", "invalid", "aborted"} : Numbers(t)' = Numbers(t)
    BY <2>4, <2>6, <2>8 DEF Numbers
  <2>10. Numbers("published")' = Numbers("published") \union {v}
    BY <2>4, <2>6, <2>8 DEF Numbers
  <2>11. QED
    BY <2>2, <2>4, <2>8, <2>9, <2>10
<1>3. CASE Candidates = {}
  <2>1. Len(versions) < MaxVersion /\ versions' = Stored(0, Revisions(db), db)
    BY <1>3 DEF Publish
  <2>2. PICK x : /\ x = [status |-> "published", src |-> 0, schema |-> 2, raced |-> FALSE,
                         snap |-> Snapshot(Revisions(db), db)]
                 /\ versions' = Append(versions, x)
    BY <2>1 DEF Stored
  <2>3. x \in Version /\ x.status = "published"
    <3>1. Revisions(db) \in Partial(Accounts, 0..MaxCred) /\ IsTables(db) /\ 0 \in 0..MaxVersion
      BY <1>1, Bounds, RevisionsType DEF TypeOK
    <3>2. QED
      BY <2>2, <3>1, CompiledType
  <2>4. /\ versions' \in Seq(Version) /\ Len(versions') <= MaxVersion
        /\ \A t : Numbers(t)' = Numbers(t) \union {w \in {Len(versions) + 1} : x.status = t}
    BY <1>1, <2>1, <2>2, <2>3, VersionAppend
  <2>5. /\ \A t \in {"open", "invalid", "aborted"} : Numbers(t)' = Numbers(t)
        /\ Numbers("published")' = Numbers("published") \union {Len(versions) + 1}
    BY <2>3, <2>4
  <2>6. \A w \in Numbers("published") : w < Len(versions) + 1
    BY <1>1, VersionFacts
  <2>7. Len(versions) + 1 \in 1..MaxVersion
    BY <1>1, <2>1, VersionFacts, Bounds
  <2>8. QED
    BY <2>4, <2>5, <2>6, <2>7
<1>4. QED
  BY <1>2, <1>3

LEMMA PublishTables ==
  ASSUME TablesInv, Publish
  PROVE  TablesInv'
  BY PublishFacts, VersionsOnly DEF Publish

\* A rollback stores a draft.
LEMMA RollbackFacts ==
  ASSUME TablesInv, Rollback
  PROVE  \E x \in Version : /\ x.status = "draft" /\ x.schema = 2 /\ x.src # 0
                            /\ Len(versions) < MaxVersion
                            /\ versions' = Append(versions, x)
<1>1. TypeOK
  BY DEF TablesInv
<1> DEFINE now(s) == [a \in DOMAIN s.revs |->
                       IF Exists(db, a) THEN db[Acct(a)].rev ELSE s.revs[a]]
<1>2. PICK v \in Numbers("draft") \union Numbers("published") :
        versions' = Append(versions,
          [status |-> "draft", src |-> v, schema |-> 2, raced |-> FALSE,
           snap |-> [versions[v].snap EXCEPT !.revs = now(versions[v].snap)]])
  BY DEF Rollback
<1>3. v \in 1..Len(versions) /\ v \in 1..MaxVersion /\ versions[v] \in Version
  BY <1>1, VersionFacts
<1>4. PICK s \in SnapshotRow : s = versions[v].snap
  BY <1>3 DEF Version
<1>5. now(s) \in Partial(Accounts, 0..MaxCred)
  <2>1. s.revs \in Partial(Accounts, 0..MaxCred)
    BY DEF SnapshotRow
  <2>2. DOMAIN s.revs \in SUBSET Accounts /\ \A a \in DOMAIN s.revs : s.revs[a] \in 0..MaxCred
    BY <2>1, PartialElim
  <2>3. now(s) \in [DOMAIN s.revs -> 0..MaxCred]
    BY <1>1, <2>2, AccountNumbers DEF TypeOK
  <2>4. QED
    BY <2>2, <2>3, PartialIntro
<1> HIDE DEF now
<1>6. PICK y : y = [s EXCEPT !.revs = now(s)]
  OBVIOUS
<1>7. y \in SnapshotRow
  BY <1>5, <1>6 DEF SnapshotRow
<1>8. PICK x : x = [status |-> "draft", src |-> v, schema |-> 2, raced |-> FALSE, snap |-> y]
  OBVIOUS
<1>9. x \in Version /\ x.status = "draft" /\ x.schema = 2 /\ x.src # 0
  BY <1>3, <1>7, <1>8, Bounds DEF Version
<1>10. versions' = Append(versions, x)
  BY <1>2, <1>4, <1>6, <1>8
<1>11. QED
  BY <1>9, <1>10 DEF Rollback

LEMMA RollbackTables ==
  ASSUME TablesInv, Rollback
  PROVE  TablesInv'
<1>1. PICK x \in Version : /\ x.status = "draft" /\ Len(versions) < MaxVersion
                           /\ versions' = Append(versions, x)
  BY RollbackFacts
<1>2. /\ versions' \in Seq(Version) /\ Len(versions') <= MaxVersion
      /\ Numbers("open") \subseteq Numbers("open")'
  BY <1>1, VersionAppend DEF TablesInv
<1>3. QED
  BY <1>2, VersionsOnly DEF Rollback

\* The migration keeps, sanitizes or invalidates each version.
Sanitized(x) ==
  IF x.schema = 2 THEN x
  ELSE IF Reconstructs(x.snap) THEN [x EXCEPT !.schema = 2, !.snap = Reconstructed(x.snap)]
  ELSE [x EXCEPT !.status = "invalid"]

LEMMA SanitizedFacts ==
  ASSUME IsTables(db), NEW x \in Version
  PROVE  /\ Sanitized(x) \in Version /\ Sanitized(x).status \in {x.status, "invalid"}
         /\ Sanitized(x).schema = 2 \/ Sanitized(x).status = "invalid"
         /\ Sanitized(x).src = x.src /\ Sanitized(x).raced = x.raced
         /\ \/ Sanitized(x).snap = x.snap /\ Sanitized(x).schema = x.schema
            \/ /\ x.schema = 1
               /\ DOMAIN Sanitized(x).snap.revs = DOMAIN x.snap.revs
               /\ Sanitized(x).snap.routes = x.snap.routes
               /\ \A m \in DOMAIN Sanitized(x).snap.fbs : Sanitized(x).snap.fbs[m] = None
         /\ Sanitized(x).schema = 1 => x.schema = 1 /\ Sanitized(x).snap = x.snap
<1>1. CASE x.schema = 2
  BY <1>1 DEF Sanitized, Version
<1>2. CASE x.schema # 2 /\ Reconstructs(x.snap)
  <2>1. PICK s \in SnapshotRow : s = x.snap
    BY DEF Version
  <2>2. PICK revs, fbs : /\ revs = [a \in DOMAIN s.revs |-> db[Acct(a)].rev]
                         /\ fbs = [m \in DOMAIN s.fbs |-> None]
    OBVIOUS
  <2>3. /\ revs \in Partial(Accounts, 0..MaxCred) /\ DOMAIN revs = DOMAIN s.revs
        /\ fbs \in Partial(Models, Models \union {None})
        /\ \A m \in DOMAIN fbs : fbs[m] = None
    <3>1. s.revs \in Partial(Accounts, 0..MaxCred) /\ s.fbs \in Partial(Models, Models \union {None})
      BY DEF SnapshotRow
    <3>2. DOMAIN s.revs \in SUBSET Accounts /\ DOMAIN s.fbs \in SUBSET Models
      BY <3>1, PartialElim
    <3>3. revs \in [DOMAIN s.revs -> 0..MaxCred] /\ fbs \in [DOMAIN s.fbs -> Models \union {None}]
      BY <2>2, <3>2, AccountNumbers
    <3>4. QED
      BY <2>2, <3>2, <3>3, PartialIntro
  <2>4. PICK y : y = [s EXCEPT !.revs = revs, !.fbs = fbs, !.mcp = FALSE]
    OBVIOUS
  <2>5. y \in SnapshotRow /\ y.revs = revs /\ y.fbs = fbs /\ y.routes = s.routes
    BY <2>3, <2>4 DEF SnapshotRow
  <2>6. y = Reconstructed(x.snap)
    BY <2>1, <2>2, <2>4 DEF Reconstructed
  <2>7. PICK z : z = [x EXCEPT !.schema = 2, !.snap = y]
    OBVIOUS
  <2>8. /\ z \in Version /\ z.status = x.status /\ z.schema = 2 /\ z.src = x.src
        /\ z.raced = x.raced /\ z.snap = y
    BY <2>5, <2>7 DEF Version
  <2>9. Sanitized(x) = z
    BY <1>2, <2>6, <2>7 DEF Sanitized
  <2>10. x.schema = 1
    BY <1>2 DEF Version
  <2>11. QED
    BY <2>1, <2>3, <2>5, <2>8, <2>9, <2>10
<1>3. CASE x.schema # 2 /\ ~Reconstructs(x.snap)
  <2>1. PICK z : z = [x EXCEPT !.status = "invalid"]
    OBVIOUS
  <2>2. /\ z \in Version /\ z.status = "invalid" /\ z.schema = x.schema /\ z.src = x.src
        /\ z.raced = x.raced /\ z.snap = x.snap
    BY <2>1 DEF Version
  <2>3. Sanitized(x) = z
    BY <1>3, <2>1 DEF Sanitized
  <2>4. QED
    BY <1>3, <2>2, <2>3 DEF Version
<1>4. QED
  BY <1>1, <1>2, <1>3

LEMMA MigrateFacts ==
  ASSUME TablesInv, Migrate
  PROVE  /\ versions' \in Seq(Version) /\ Len(versions') = Len(versions)
         /\ \A v \in 1..Len(versions) : versions'[v] = Sanitized(versions[v])
         /\ Numbers("published")' \subseteq Numbers("published")
         /\ Numbers("draft")' = {}
<1>1. TypeOK
  BY DEF TablesInv
<1>2. /\ Len(versions) \in Nat /\ DOMAIN versions = 1..Len(versions)
      /\ \A v \in 1..Len(versions) : versions[v] \in Version
  BY <1>1, VersionFacts
<1>3. versions' = [v \in 1..Len(versions) |-> Sanitized(versions[v])]
  <2>1. versions' = [v \in DOMAIN versions |-> Sanitized(versions[v])]
    BY Zenon DEF Migrate, Sanitized
  <2>2. QED
    BY <1>2, <2>1
<1>4. \A v \in 1..Len(versions) :
        Sanitized(versions[v]) \in Version
        /\ Sanitized(versions[v]).status \in {versions[v].status, "invalid"}
  BY <1>1, <1>2, SanitizedFacts DEF TypeOK
<1>5. versions' \in Seq(Version) /\ Len(versions') = Len(versions)
  BY <1>2, <1>3, <1>4
<1>6. \A v \in 1..Len(versions) : versions'[v] = Sanitized(versions[v])
  BY <1>3
<1>7. \A t : Numbers(t)' = {v \in 1..Len(versions) : Sanitized(versions[v]).status = t}
  BY <1>5, <1>6 DEF Numbers
<1>8. Numbers("draft") = {}
  BY DEF TablesInv, BootOK, Migrate
<1>9. QED
  BY <1>4, <1>5, <1>6, <1>7, <1>8 DEF Numbers

LEMMA MigrateTables ==
  ASSUME TablesInv, Migrate
  PROVE  TablesInv'
<1>1. db' = db /\ op' = op /\ backup' = backup /\ boot' = "seeding" /\ boot = "migrating"
      /\ gw' = gw /\ instance' = instance /\ lastAck' = lastAck
  BY DEF Migrate, fleet
<1>2. TypeOK'
  BY <1>1, MigrateFacts DEF TablesInv, TypeOK
<1>3. AccountsFine' /\ LocksOK'
  BY <1>1 DEF TablesInv, AccountsFine, LocksOK
<1>4. BootOK' /\ OpenOK'
  BY <1>1, MigrateFacts DEF TablesInv, BootOK, OpenOK
<1>5. QED
  BY <1>2, <1>3, <1>4 DEF TablesInv

\* What the seed writes over accounts that were never used.
LEMMA SeedRowsFine ==
  ASSUME NEW d, AllFine(d), \A a \in SeedAccounts : d[Acct(a)].st = "new"
  PROVE  WriteFine(d, SeedRows)
<1> DEFINE row == [st |-> "on", cred |-> 1, rev |-> 1]
           w1 == [r \in {Acct(a) : a \in SeedAccounts} |-> row]
           w2 == [r \in {Map(SeedModel, a) : a \in SeedAccounts} |-> TRUE]
           w3 == Write(Model(SeedModel), [st |-> "on", pool |-> FALSE, fb |-> None])
           w4 == Write(Key(SeedKey), TRUE)
<1>1. SeedAccounts \subseteq Accounts /\ SeedModel \in Models /\ SeedKey \in Keys
  BY ConstantsAssumption
<1>2. WriteFine(d, w1)
  <2>1. \A a \in SeedAccounts : AccountNext(d[Acct(a)], row)
    BY <1>1, TableFacts, NewAccount DEF AllFine
  <2> HIDE DEF row
  <2>2. \A r \in DOMAIN w1 : w1[r] = row /\ \E a \in SeedAccounts : r = Acct(a)
    OBVIOUS
  <2> HIDE DEF w1
  <2>3. QED
    BY <1>1, <2>1, <2>2, AccountNexts
<1>3. WriteFine(d, w2)
  <2>1. \A r \in DOMAIN w2 : w2[r] \in BOOLEAN /\ \E m \in Models, a \in Accounts : r = Map(m, a)
    BY <1>1
  <2> HIDE DEF w2
  <2>2. QED
    BY <2>1, MapWrites
<1>4. WriteFine(d, w3)
  <2>1. [st |-> "on", pool |-> FALSE, fb |-> None] \in ModelRow
    BY DEF ModelRow
  <2>2. QED
    BY <1>1, <2>1, RowKinds, RowsDiffer, OneOther
<1>5. WriteFine(d, w4)
  BY <1>1, RowKinds, RowsDiffer, OneOther
<1>6. SeedRows = Over(Over(Over(w1, w2), w3), w4)
  BY DEF SeedRows, ++
<1> HIDE DEF w1, w2, w3, w4
<1>7. QED
  BY <1>2, <1>3, <1>4, <1>5, <1>6, OverFine

\* The seed publishes at most one version, of the tables it leaves behind.
LEMMA SeedFacts ==
  ASSUME TablesInv, Seed
  PROVE  /\ AllFine(db') /\ \A a \in Accounts : db[Acct(a)].rev <= db'[Acct(a)].rev
         /\ \/ versions' = versions
            \/ \E x \in Version :
                 /\ x.status = "published" /\ x.schema = 2
                 /\ x.snap = Snapshot(Revisions(db'), db') /\ Compiles(db')
                 /\ Len(versions) < MaxVersion
                 /\ versions' = Append(versions, x)
<1>1. TypeOK /\ AllFine(db)
  BY FineTables DEF TablesInv
<1>2. Len(versions) < MaxVersion /\ Len(versions) \in Nat
  BY <1>1, VersionFacts, Bounds DEF TablesInv, BootOK, Seed
<1>3. CASE db' = db /\ versions' = versions
  <2>1. \A a \in Accounts : db[Acct(a)].rev \in Nat
    BY <1>1, AccountNumbers, Bounds DEF TypeOK
  <2>2. QED
    BY <1>1, <1>3, <2>1
<1>4. CASE ~(db' = db /\ versions' = versions)
  <2> DEFINE fresh == \A a \in Accounts : db[Acct(a)].st = "new"
             lost == Numbers("invalid")
             src == IF lost = {} THEN 0 ELSE Newest(lost)
  <2>1. /\ db' = IF fresh THEN Overlay(SeedRows) ELSE db
        /\ Compiles(db') /\ versions' = Stored(src, Revisions(db'), db')
    BY <1>4 DEF Seed
  <2>2. src \in 0..MaxVersion
    <3>1. lost \in SUBSET (1..Len(versions)) /\ 1..Len(versions) \subseteq 1..MaxVersion
      BY <1>1, VersionFacts
    <3> HIDE DEF lost
    <3>2. lost # {} => Newest(lost) \in 1..MaxVersion
      BY <1>2, <3>1, NewestFacts
    <3>3. QED
      BY <3>2, Bounds
  <2>3. AllFine(db') /\ \A a \in Accounts : db[Acct(a)].rev <= db'[Acct(a)].rev
    <3>1. CASE fresh
      <4>1. WriteFine(db, SeedRows)
        BY <1>1, <3>1, SeedRowsFine, ConstantsAssumption
      <4>2. QED
        BY <2>1, <3>1, <4>1, OverlayFine
    <3>2. CASE ~fresh
      <4>1. \A a \in Accounts : db[Acct(a)].rev \in Nat
        BY <1>1, AccountNumbers, Bounds DEF TypeOK
      <4>2. QED
        BY <1>1, <2>1, <3>2, <4>1
    <3>3. QED
      BY <3>1, <3>2
  <2> HIDE DEF fresh, src
  <2>4. PICK x : /\ x = [status |-> "published", src |-> src, schema |-> 2, raced |-> FALSE,
                         snap |-> Snapshot(Revisions(db'), db')]
                 /\ versions' = Append(versions, x)
    BY <2>1 DEF Stored
  <2>5. IsTables(db') /\ Revisions(db') \in Partial(Accounts, 0..MaxCred)
    BY <2>3, RevisionsType DEF AllFine
  <2>6. x \in Version
    BY <2>2, <2>4, <2>5, CompiledType
  <2>7. x.status = "published" /\ x.schema = 2 /\ x.snap = Snapshot(Revisions(db'), db')
    BY <2>4
  <2>8. QED
    BY <1>2, <2>1, <2>3, <2>4, <2>6, <2>7
<1>5. QED
  BY <1>3, <1>4

LEMMA SeedTables ==
  ASSUME TablesInv, Seed
  PROVE  TablesInv'
<1>1. op' = op /\ backup' = backup /\ boot' = "serving" /\ boot = "seeding"
      /\ gw' = gw /\ instance' = instance /\ lastAck' = lastAck
  BY DEF Seed, fleet
<1>2. \A o \in Operators : op[o] = Idle
  BY <1>1 DEF TablesInv, LocksOK, BootOK
<1>3. versions' \in Seq(Version) /\ Len(versions') <= MaxVersion
  BY SeedFacts, VersionAppend DEF TablesInv, TypeOK
<1>4. TypeOK'
  BY <1>1, <1>3, SeedFacts DEF TablesInv, TypeOK, AllFine
<1>5. AccountsFine'
  BY SeedFacts DEF AccountsFine, AllFine
<1>6. LocksOK'
  BY <1>1, <1>2, IdleType DEF LocksOK
<1>7. BootOK' /\ OpenOK'
  BY <1>1, <1>2, IdleType DEF BootOK, OpenOK
<1>8. QED
  BY <1>4, <1>5, <1>6, <1>7 DEF TablesInv

\* A step of one transaction that commits nothing.
LEMMA OneTransaction ==
  ASSUME TablesInv, NEW o \in Operators, NEW y, IsTransaction(y),
         y.pc = "idle" => y = Idle, Forward(db, y.w),
         \A p \in Operators \ {o} : DOMAIN y.w \cap DOMAIN op[p].w = {},
         op' = [op EXCEPT ![o] = y], db' = db, boot' = boot, backup' = backup,
         UNCHANGED fleet, boot = "serving",
         versions' \in Seq(Version), Len(versions') <= MaxVersion,
         \A p \in Operators \ {o} : op[p].pc = "stored" => op[p].ver \in Numbers("open")',
         y.pc = "stored" =>
           /\ y.ver \in Numbers("open")'
           /\ \A p \in Operators \ {o} : op[p].pc = "stored" => op[p].ver # y.ver
  PROVE  TablesInv'
<1>1. /\ DOMAIN op' = Operators /\ op'[o] = y
      /\ \A p \in Operators \ {o} : op'[p] = op[p]
  BY DEF TablesInv, TypeOK
<1>2. TypeOK'
  BY <1>1 DEF TablesInv, TypeOK, fleet
<1>3. AccountsFine'
  BY DEF TablesInv, AccountsFine
<1>4. LocksOK'
  <2>1. \A p \in Operators : op'[p].pc = "idle" => op'[p] = Idle
    BY <1>1 DEF TablesInv, LocksOK
  <2>2. \A p \in Operators : Forward(db', op'[p].w)
    BY <1>1 DEF TablesInv, LocksOK
  <2>3. \A p, q \in Operators : p # q => DOMAIN op'[p].w \cap DOMAIN op'[q].w = {}
    BY <1>1 DEF TablesInv, LocksOK
  <2>4. QED
    BY <2>1, <2>2, <2>3 DEF LocksOK
<1>5. OpenOK'
  BY <1>1 DEF TablesInv, OpenOK
<1>6. BootOK'
  BY DEF BootOK
<1>7. QED
  BY <1>2, <1>3, <1>4, <1>5, <1>6 DEF TablesInv

LEMMA Reading ==
  ASSUME NEW w, NEW R
  PROVE  [Idle EXCEPT !.pc = "reading", !.w = w, !.revs = R]
           = [pc |-> "reading", w |-> w, revs |-> R, ver |-> 0, raced |-> FALSE]
<1>1. PICK i : i = Idle
  OBVIOUS
<1>2. i \in [pc : {"idle"}, w : {<<>>}, revs : {<<>>}, ver : {0}, raced : {FALSE}]
  BY <1>1 DEF Idle
<1>3. PICK y : y = [i EXCEPT !.pc = "reading", !.w = w, !.revs = R]
  OBVIOUS
<1>4. y \in [pc : {"reading"}, w : {w}, revs : {R}, ver : {0}, raced : {FALSE}]
  BY <1>2, <1>3
<1>5. y = [pc |-> "reading", w |-> w, revs |-> R, ver |-> 0, raced |-> FALSE]
  BY <1>4
<1>6. QED
  BY <1>1, <1>3, <1>5

LEMMA SubmitFacts ==
  ASSUME TablesInv, NEW o \in Operators, Submit(o)
  PROVE  \E w : /\ WriteFine(db, w) /\ ~Blocked(w)
                /\ op' = [op EXCEPT ![o] = [pc |-> "reading", w |-> w,
                            revs |-> Revisions(Overlay(w)), ver |-> 0, raced |-> FALSE]]
<1>1. PICK kind \in Edits : \E w \in Changes(kind, db) :
        /\ ~Blocked(w)
        /\ op' = [op EXCEPT ![o] = [Idle EXCEPT !.pc = "reading", !.w = w,
                                                !.revs = Revisions(Overlay(w))]]
  BY DEF Submit
<1> PICK w \in Changes(kind, db) :
        /\ ~Blocked(w)
        /\ op' = [op EXCEPT ![o] = [Idle EXCEPT !.pc = "reading", !.w = w,
                                                !.revs = Revisions(Overlay(w))]]
  BY <1>1
<1>2. WriteFine(db, w)
  BY FineTables, ChangesFine DEF TablesInv, TypeOK
<1>3. [Idle EXCEPT !.pc = "reading", !.w = w, !.revs = Revisions(Overlay(w))]
        = [pc |-> "reading", w |-> w, revs |-> Revisions(Overlay(w)), ver |-> 0, raced |-> FALSE]
  BY Reading, Zenon
<1>4. QED
  BY <1>2, <1>3

LEMMA SubmitTables ==
  ASSUME TablesInv, NEW o \in Operators, Submit(o)
  PROVE  TablesInv'
<1>1. PICK w : /\ WriteFine(db, w) /\ ~Blocked(w)
               /\ op' = [op EXCEPT ![o] = [pc |-> "reading", w |-> w,
                            revs |-> Revisions(Overlay(w)), ver |-> 0, raced |-> FALSE]]
  BY SubmitFacts
<1>2. PICK R \in Partial(Accounts, 0..MaxCred) : R = Revisions(Overlay(w))
  BY <1>1, OverlayFine, RevisionsType
<1>3. PICK y : y = [pc |-> "reading", w |-> w, revs |-> R, ver |-> 0, raced |-> FALSE]
  OBVIOUS
<1>4. IsTransaction(y) /\ y.pc = "reading" /\ y.w = w
  BY <1>1, <1>3, Bounds DEF IsTransaction, WriteFine
<1>5. \A p \in Operators \ {o} : DOMAIN y.w \cap DOMAIN op[p].w = {}
  BY <1>1, <1>4 DEF Blocked
<1>6. op' = [op EXCEPT ![o] = y]
  BY <1>1, <1>2, <1>3
<1>7. versions' = versions /\ Numbers("open")' = Numbers("open") /\ db' = db /\ boot' = boot
      /\ backup' = backup /\ UNCHANGED fleet /\ boot = "serving"
  BY DEF Submit, Numbers
<1>8. /\ versions' \in Seq(Version) /\ Len(versions') <= MaxVersion
      /\ \A p \in Operators \ {o} : op[p].pc = "stored" => op[p].ver \in Numbers("open")'
  BY <1>7 DEF TablesInv, TypeOK, OpenOK
<1>9. Forward(db, y.w)
  BY <1>1, <1>4 DEF WriteFine
<1>10. QED
  BY <1>4, <1>5, <1>6, <1>7, <1>8, <1>9, OneTransaction

\* A compilation stores an open version under the next number, or gives up.
LEMMA CompileFacts ==
  ASSUME TablesInv, NEW o \in Operators, Compile(o)
  PROVE  /\ boot = "serving"
         /\ \/ versions' = versions /\ op' = [op EXCEPT ![o] = Idle]
            \/ \E x \in Version : \E y :
                 /\ x.status = "open" /\ x.schema = 2 /\ x.src = 0 /\ ~x.raced
                 /\ x.snap = Snapshot(op[o].revs, Overlay(op[o].w))
                 /\ Compiles(Overlay(op[o].w))
                 /\ Len(versions) < MaxVersion /\ versions' = Append(versions, x)
                 /\ IsTransaction(y) /\ y.pc = "stored" /\ y.w = op[o].w
                 /\ y.ver = Len(versions) + 1 /\ y.raced = op[o].raced
                 /\ op' = [op EXCEPT ![o] = y]
<1>1. op[o].pc = "reading" /\ Len(versions) < MaxVersion
  BY DEF Compile
<1>2. boot = "serving"
  BY <1>1 DEF TablesInv, BootOK
<1>3. CASE Compiles(Overlay(op[o].w))
  <2>1. PICK x : /\ x = [status |-> "open", src |-> 0, schema |-> 2, raced |-> FALSE,
                         snap |-> Snapshot(op[o].revs, Overlay(op[o].w))]
                 /\ versions' = Append(versions, x)
    BY <1>3 DEF Compile
  <2>2. IsTransaction(op[o])
    BY DEF TablesInv, TypeOK
  <2>3. op[o].revs \in Partial(Accounts, 0..MaxCred) /\ IsTables(Overlay(op[o].w))
    BY <2>2, FineTables, OverlayFine DEF IsTransaction
  <2>4. x \in Version
    <3>1. 0 \in 0..MaxVersion
      BY Bounds
    <3>2. QED
      BY <2>1, <2>3, <3>1, CompiledType, Zenon
  <2>5. x.status = "open" /\ x.schema = 2 /\ x.src = 0 /\ ~x.raced
        /\ x.snap = Snapshot(op[o].revs, Overlay(op[o].w))
    BY <2>1
  <2>6. PICK q : q = op[o]
    OBVIOUS
  <2>7. PICK y : y = [q EXCEPT !.pc = "stored", !.ver = Len(versions) + 1]
    OBVIOUS
  <2>8. op' = [op EXCEPT ![o] = y]
    BY <1>3, <2>6, <2>7 DEF Compile
  <2>9. Len(versions) + 1 \in 0..MaxVersion
    BY <1>1, VersionFacts, Bounds DEF TablesInv
  <2>10. IsTransaction(y) /\ y.pc = "stored" /\ y.w = q.w /\ y.ver = Len(versions) + 1
         /\ y.raced = q.raced
    <3>1. PICK n \in 0..MaxVersion : n = Len(versions) + 1
      BY <2>9
    <3>2. y = [q EXCEPT !.pc = "stored", !.ver = n] /\ IsTransaction(q)
      BY <2>2, <2>6, <2>7, <3>1, Zenon
    <3>3. QED
      BY <3>1, <3>2 DEF IsTransaction
  <2>11. QED
    BY <1>1, <1>2, <1>3, <2>1, <2>4, <2>5, <2>6, <2>8, <2>10
<1>4. CASE ~Compiles(Overlay(op[o].w))
  BY <1>2, <1>4 DEF Compile
<1>5. QED
  BY <1>3, <1>4

LEMMA CompileTables ==
  ASSUME TablesInv, NEW o \in Operators, Compile(o)
  PROVE  TablesInv'
<1>1. db' = db /\ boot' = boot /\ backup' = backup /\ UNCHANGED fleet /\ boot = "serving"
  BY CompileFacts DEF Compile
<1>2. CASE versions' = versions /\ op' = [op EXCEPT ![o] = Idle]
  <2>1. /\ versions' \in Seq(Version) /\ Len(versions') <= MaxVersion
        /\ \A p \in Operators \ {o} : op[p].pc = "stored" => op[p].ver \in Numbers("open")'
    BY <1>2 DEF TablesInv, TypeOK, OpenOK, Numbers
  <2>2. \A p \in Operators \ {o} : DOMAIN Idle.w \cap DOMAIN op[p].w = {}
    BY IdleType
  <2>3. QED
    BY <1>1, <1>2, <2>1, <2>2, IdleType, OneTransaction
<1>3. CASE \E x \in Version : \E y :
             /\ x.status = "open" /\ Len(versions) < MaxVersion
             /\ versions' = Append(versions, x)
             /\ IsTransaction(y) /\ y.pc = "stored" /\ y.w = op[o].w
             /\ y.ver = Len(versions) + 1 /\ op' = [op EXCEPT ![o] = y]
  <2>1. PICK x, y :
             /\ x \in Version /\ x.status = "open" /\ Len(versions) < MaxVersion
             /\ versions' = Append(versions, x)
             /\ IsTransaction(y) /\ y.pc = "stored" /\ y.w = op[o].w
             /\ y.ver = Len(versions) + 1 /\ op' = [op EXCEPT ![o] = y]
    BY <1>3
  <2>2. /\ versions' \in Seq(Version) /\ Len(versions') <= MaxVersion
        /\ Numbers("open")' = Numbers("open") \union {Len(versions) + 1}
    BY <2>1, VersionAppend DEF TablesInv
  <2>3. Len(versions) + 1 \notin Numbers("open")
    BY VersionFacts DEF TablesInv, Numbers
  <2>4. /\ \A p \in Operators \ {o} : op[p].pc = "stored" => op[p].ver \in Numbers("open")'
        /\ y.ver \in Numbers("open")'
        /\ \A p \in Operators \ {o} : op[p].pc = "stored" => op[p].ver # y.ver
    BY <2>1, <2>2, <2>3 DEF TablesInv, OpenOK
  <2>5. Forward(db, y.w) /\ \A p \in Operators \ {o} : DOMAIN y.w \cap DOMAIN op[p].w = {}
    BY <2>1 DEF TablesInv, LocksOK
  <2>6. QED
    BY <1>1, <2>1, <2>2, <2>4, <2>5, OneTransaction
<1>4. QED
  BY <1>2, <1>3, CompileFacts

LEMMA AbortFacts ==
  ASSUME TablesInv, NEW o \in Operators, Abort(o)
  PROVE  /\ boot = "serving" /\ op[o].ver \in Numbers("open")
         /\ \E x \in Version : /\ x.status = "aborted" /\ x.schema = versions[op[o].ver].schema
                               /\ x.snap = versions[op[o].ver].snap
                               /\ versions' = [versions EXCEPT ![op[o].ver] = x]
<1>1. boot = "serving" /\ op[o].ver \in Numbers("open")
  BY DEF Abort, TablesInv, BootOK, OpenOK
<1>2. PICK z \in Version : z = versions[op[o].ver]
  BY <1>1, VersionFacts DEF TablesInv
<1>3. PICK x : x = [z EXCEPT !.status = "aborted"]
  OBVIOUS
<1>4. x \in Version /\ x.status = "aborted" /\ x.schema = z.schema /\ x.snap = z.snap
  BY <1>3 DEF Version
<1>5. versions' = [versions EXCEPT ![op[o].ver] = x]
  BY <1>2, <1>3 DEF Abort
<1>6. QED
  BY <1>1, <1>2, <1>4, <1>5

LEMMA AbortTables ==
  ASSUME TablesInv, NEW o \in Operators, Abort(o)
  PROVE  TablesInv'
<1>1. PICK x \in Version : x.status = "aborted" /\ versions' = [versions EXCEPT ![op[o].ver] = x]
  BY AbortFacts
<1>2. boot = "serving" /\ op[o].ver \in Numbers("open") /\ op[o].ver \in 1..Len(versions)
  BY AbortFacts, VersionFacts DEF TablesInv
<1>3. /\ versions' \in Seq(Version) /\ Len(versions') <= MaxVersion
      /\ Numbers("open")' = Numbers("open") \ {op[o].ver}
  <2>1. PICK v \in 1..Len(versions) : v = op[o].ver
    BY <1>2
  <2>2. versions' = [versions EXCEPT ![v] = x] /\ TypeOK
    BY <1>1, <2>1 DEF TablesInv
  <2>3. /\ versions' \in Seq(Version) /\ Len(versions') <= MaxVersion
        /\ \A t : Numbers(t)' = (Numbers(t) \ {v}) \union {w \in {v} : x.status = t}
    BY <2>2, VersionChange
  <2>4. QED
    BY <1>1, <2>1, <2>3
<1>4. \A p \in Operators \ {o} : op[p].pc = "stored" => op[p].ver \in Numbers("open")'
  BY <1>3 DEF TablesInv, OpenOK, Abort
<1>5. \A p \in Operators \ {o} : DOMAIN Idle.w \cap DOMAIN op[p].w = {}
  BY IdleType
<1>6. db' = db /\ boot' = boot /\ backup' = backup /\ UNCHANGED fleet
      /\ op' = [op EXCEPT ![o] = Idle]
  BY DEF Abort
<1>7. QED
  BY <1>2, <1>3, <1>4, <1>5, <1>6, IdleType, OneTransaction

\* A transaction that is overtaken keeps everything but its flag.
LEMMA RacedType ==
  ASSUME NEW q, IsTransaction(q), NEW b \in BOOLEAN
  PROVE  \E y : /\ y = [q EXCEPT !.raced = b] /\ IsTransaction(y)
                /\ y.pc = q.pc /\ y.w = q.w /\ y.revs = q.revs /\ y.ver = q.ver /\ y.raced = b
<1>1. PICK y : y = [q EXCEPT !.raced = b]
  OBVIOUS
<1>2. IsTransaction(y) /\ y.pc = q.pc /\ y.w = q.w /\ y.revs = q.revs /\ y.ver = q.ver /\ y.raced = b
  BY <1>1 DEF IsTransaction
<1>3. QED
  BY <1>1, <1>2

LEMMA IdleStays == [Idle EXCEPT !.raced = FALSE] = Idle
<1> DEFINE R == [pc : {"idle"}, w : {<<>>}, revs : {<<>>}, ver : {0}, raced : {FALSE}]
<1>1. PICK i : i = Idle
  OBVIOUS
<1>2. i \in R
  BY <1>1 DEF Idle
<1>3. PICK y : y = [i EXCEPT !.raced = FALSE]
  OBVIOUS
<1>4. y \in R
  BY <1>2, <1>3
<1>5. y = [pc |-> "idle", w |-> <<>>, revs |-> <<>>, ver |-> 0, raced |-> FALSE]
  BY <1>4
<1>6. QED
  BY <1>1, <1>3, <1>5 DEF Idle

Overtaken(o) == \E p \in Operators \ {o} : op[p].pc # "idle"

LEMMA CommitFacts ==
  ASSUME TablesInv, NEW o \in Operators, Commit(o)
  PROVE  /\ boot = "serving" /\ op[o].ver \in Numbers("open")
         /\ \E x \in Version :
              /\ x.status = "draft" /\ x.raced = (op[o].raced \/ Overtaken(o))
              /\ x.schema = versions[op[o].ver].schema /\ x.src = versions[op[o].ver].src
              /\ x.snap = versions[op[o].ver].snap
              /\ versions' = [versions EXCEPT ![op[o].ver] = x]
         /\ DOMAIN op' = Operators /\ op'[o] = Idle
         /\ \A p \in Operators \ {o} :
              /\ IsTransaction(op'[p])
              /\ op[p] = Idle => op'[p] = Idle
              /\ op'[p].pc = op[p].pc /\ op'[p].w = op[p].w /\ op'[p].ver = op[p].ver
              /\ op'[p].raced = (op[p].pc # "idle")
<1> DEFINE others == {p \in Operators \ {o} : op[p].pc # "idle"}
<1>1. boot = "serving" /\ op[o].ver \in Numbers("open")
  BY DEF Commit, TablesInv, BootOK, OpenOK
<1>2. PICK z \in Version : z = versions[op[o].ver]
  BY <1>1, VersionFacts DEF TablesInv
<1>3. PICK b \in BOOLEAN : b = (op[o].raced \/ others # {})
  BY Zenon
<1>4. b = (op[o].raced \/ Overtaken(o))
  BY <1>3 DEF Overtaken
<1>5. PICK x : x = [z EXCEPT !.status = "draft", !.raced = b]
  OBVIOUS
<1>6. /\ x \in Version /\ x.status = "draft" /\ x.raced = b /\ x.schema = z.schema
      /\ x.src = z.src /\ x.snap = z.snap
  BY <1>5 DEF Version
<1>7. versions' = [versions EXCEPT ![op[o].ver] = x]
  BY <1>2, <1>3, <1>5 DEF Commit
<1>8. op' = [p \in Operators |-> IF p = o THEN Idle ELSE [op[p] EXCEPT !.raced = p \in others]]
  BY DEF Commit
<1>9. ASSUME NEW p \in Operators \ {o}
      PROVE  /\ IsTransaction(op'[p])
             /\ op[p] = Idle => op'[p] = Idle
             /\ op'[p].pc = op[p].pc /\ op'[p].w = op[p].w /\ op'[p].ver = op[p].ver
             /\ op'[p].raced = (op[p].pc # "idle")
  <2>1. PICK c \in BOOLEAN : c = (op[p].pc # "idle")
    BY Zenon
  <2>2. op'[p] = [op[p] EXCEPT !.raced = c]
    BY <1>8, <2>1
  <2>3. IsTransaction(op[p])
    BY DEF TablesInv, TypeOK
  <2>4. PICK y : /\ y = [op[p] EXCEPT !.raced = c] /\ IsTransaction(y)
                 /\ y.pc = op[p].pc /\ y.w = op[p].w /\ y.ver = op[p].ver /\ y.raced = c
    BY <2>3, RacedType
  <2>5. op'[p] = y
    BY <2>2, <2>4
  <2>6. op[p] = Idle => c = FALSE
    BY <2>1, IdleType
  <2>7. op[p] = Idle => op'[p] = Idle
    BY <2>2, <2>6, IdleStays
  <2>8. QED
    BY <2>1, <2>4, <2>5, <2>7
<1>10. DOMAIN op' = Operators /\ op'[o] = Idle
  BY <1>8
<1>11. QED
  BY <1>1, <1>2, <1>4, <1>6, <1>7, <1>9, <1>10

LEMMA CommitTables ==
  ASSUME TablesInv, NEW o \in Operators, Commit(o)
  PROVE  TablesInv'
<1>1. db' = Overlay(op[o].w) /\ boot' = boot /\ backup' = backup
      /\ gw' = gw /\ instance' = instance /\ lastAck' = lastAck
  BY DEF Commit, fleet
<1>2. AllFine(db')
  BY <1>1, FineTables, OverlayFine
<1>3. PICK x \in Version : x.status = "draft" /\ versions' = [versions EXCEPT ![op[o].ver] = x]
  BY CommitFacts
<1>4. PICK v \in 1..Len(versions) : v = op[o].ver
  BY CommitFacts, VersionFacts DEF TablesInv
<1>5. /\ versions' \in Seq(Version) /\ Len(versions') <= MaxVersion
      /\ Numbers("open")' = Numbers("open") \ {v}
  <2>1. versions' = [versions EXCEPT ![v] = x] /\ TypeOK
    BY <1>3, <1>4 DEF TablesInv
  <2>2. /\ versions' \in Seq(Version) /\ Len(versions') <= MaxVersion
        /\ \A t : Numbers(t)' = (Numbers(t) \ {v}) \union {w \in {v} : x.status = t}
    BY <2>1, VersionChange
  <2>3. QED
    BY <1>3, <2>2
<1>6. TypeOK'
  BY <1>1, <1>2, <1>5, CommitFacts, IdleType DEF TablesInv, TypeOK, AllFine
<1>7. AccountsFine'
  BY <1>2 DEF AccountsFine, AllFine
<1>8. LocksOK'
  <2>1. \A p \in Operators : op'[p].pc = "idle" => op'[p] = Idle
    BY CommitFacts DEF TablesInv, LocksOK
  <2>2. ASSUME NEW p \in Operators
        PROVE  Forward(db', op'[p].w)
    <3>1. CASE p = o
      BY <3>1, CommitFacts, IdleType
    <3>2. CASE p # o
      <4>1. /\ op'[p].w = op[p].w /\ Forward(db, op[p].w)
            /\ DOMAIN op[o].w \cap DOMAIN op[p].w = {}
            /\ DOMAIN op[p].w \subseteq Rows /\ DOMAIN db = Rows
        BY <3>2, CommitFacts
           DEF TablesInv, LocksOK, TypeOK, IsTransaction, IsWrites, IsTables
      <4>2. PICK h : /\ h = Over(op[o].w, db) /\ DOMAIN h = DOMAIN op[o].w \union DOMAIN db
                     /\ \A r \in DOMAIN op[o].w : h[r] = op[o].w[r]
                     /\ \A r \in DOMAIN db \ DOMAIN op[o].w : h[r] = db[r]
        BY OverFacts
      <4>3. db' = h
        BY <1>1, <4>2 DEF Overlay, ++
      <4>4. \A r \in DOMAIN op[p].w : db'[r] = db[r]
        BY <4>1, <4>2, <4>3
      <4>5. QED
        BY <4>1, <4>4 DEF Forward
    <3>3. QED
      BY <3>1, <3>2
  <2>3. \A p, q \in Operators : p # q => DOMAIN op'[p].w \cap DOMAIN op'[q].w = {}
    <3>1. \A p \in Operators : DOMAIN op'[p].w \subseteq DOMAIN op[p].w
      BY CommitFacts, IdleType
    <3>2. QED
      BY <3>1 DEF TablesInv, LocksOK
  <2>4. QED
    BY <2>1, <2>2, <2>3 DEF LocksOK
<1>9. BootOK'
  BY <1>1, CommitFacts DEF BootOK
<1>10. OpenOK'
  <2>1. \A p \in Operators : op'[p].pc = "stored" =>
          p # o /\ op[p].pc = "stored" /\ op'[p].ver = op[p].ver
    BY CommitFacts, IdleType
  <2>2. op[o].pc = "stored"
    BY DEF Commit
  <2>3. QED
    BY <1>4, <1>5, <2>1, <2>2 DEF TablesInv, OpenOK
<1>11. QED
  BY <1>6, <1>7, <1>8, <1>9, <1>10 DEF TablesInv

\* A row that changes without a transaction.
LEMMA RowChange ==
  ASSUME TablesInv, NEW r \in Rows, NEW y \in RowValues(r), db' = [db EXCEPT ![r] = y],
         \A a \in Accounts : r = Acct(a) =>
           /\ AccountFine(y) /\ db[r].rev <= y.rev
           /\ \A o \in Operators : r \notin DOMAIN op[o].w,
         boot = "serving", UNCHANGED <<versions, op, boot, backup, fleet>>
  PROVE  TablesInv' /\ \A a \in Accounts : db[Acct(a)].rev <= db'[Acct(a)].rev
<1>1. DOMAIN db = Rows /\ \A s \in Rows : db[s] \in RowValues(s)
  BY DEF TablesInv, TypeOK, IsTables, IsWrites
<1>2. DOMAIN db' = Rows /\ db'[r] = y /\ \A s \in Rows \ {r} : db'[s] = db[s]
  BY <1>1
<1>3. IsTables(db')
  BY <1>1, <1>2 DEF IsTables, IsWrites
<1>4. TypeOK'
  BY <1>3 DEF TablesInv, TypeOK, fleet
<1>5. \A a \in Accounts : Acct(a) \in Rows /\ db[Acct(a)].rev \in Nat
  BY RowKinds, AccountNumbers, Bounds DEF TablesInv, TypeOK
<1>6. AccountsFine' /\ \A a \in Accounts : db[Acct(a)].rev <= db'[Acct(a)].rev
  BY <1>2, <1>5 DEF TablesInv, AccountsFine
<1>7. LocksOK'
  <2>1. \A o \in Operators : Forward(db', op'[o].w)
    BY <1>2, <1>5 DEF TablesInv, LocksOK, Forward
  <2>2. QED
    BY <2>1 DEF TablesInv, LocksOK
<1>8. BootOK' /\ OpenOK'
  BY DEF TablesInv, BootOK, OpenOK, Numbers
<1>9. QED
  BY <1>4, <1>6, <1>7, <1>8 DEF TablesInv

LEMMA DiscoverTables ==
  ASSUME TablesInv, NEW a \in Offering, Discover(a)
  PROVE  /\ TablesInv' /\ \A b \in Accounts : db[Acct(b)].rev <= db'[Acct(b)].rev
         /\ \E y \in BOOLEAN : db' = [db EXCEPT ![Sees(a)] = y]
<1>1. a \in Accounts
  BY ConstantsAssumption
<1>2. PICK y \in BOOLEAN : y = ~db[Sees(a)]
  BY Zenon
<1>3. db' = [db EXCEPT ![Sees(a)] = y] /\ boot = "serving"
      /\ UNCHANGED <<versions, op, boot, backup, fleet>>
  BY <1>2 DEF Discover
<1>4. PICK r \in Rows : r = Sees(a) /\ y \in RowValues(r) /\ \A b \in Accounts : r # Acct(b)
  BY <1>1, RowKinds, RowsDiffer
<1>5. db' = [db EXCEPT ![r] = y]
  BY <1>3, <1>4
<1>6. QED
  BY <1>3, <1>4, <1>5, RowChange

LEMMA RotateTables ==
  ASSUME TablesInv, NEW a \in Accounts, RotateCredential(a)
  PROVE  /\ TablesInv' /\ \A b \in Accounts : db[Acct(b)].rev <= db'[Acct(b)].rev
         /\ \E y \in AccountRow : db' = [db EXCEPT ![Acct(a)] = y] /\ y.st = db[Acct(a)].st
<1>1. PICK x \in AccountRow : x = db[Acct(a)] /\ AccountFine(x)
  BY TableFacts DEF TablesInv, TypeOK, AccountsFine
<1>2. 0 < x.cred /\ x.cred < MaxCred /\ x.st # "new"
  BY <1>1 DEF RotateCredential, Exists
<1>3. PICK y : y = [x EXCEPT !.cred = x.cred + 1, !.rev = x.rev + 1]
  OBVIOUS
<1>4. x.cred \in Nat /\ x.rev \in Nat /\ x.cred + 1 \in 0..MaxCred /\ x.rev + 1 \in 0..MaxCred
  BY <1>1, <1>2, Bounds DEF AccountRow, AccountFine
<1>5. y \in AccountRow /\ y.st = x.st /\ y.cred = x.cred + 1 /\ y.rev = x.rev + 1
  BY <1>3, <1>4 DEF AccountRow
<1>6. AccountFine(y) /\ x.rev <= y.rev
  BY <1>1, <1>2, <1>4, <1>5 DEF AccountFine
<1>7. db' = [db EXCEPT ![Acct(a)] = y]
  BY <1>1, <1>3 DEF RotateCredential
<1>8. /\ boot = "serving" /\ UNCHANGED <<versions, op, boot, backup, fleet>>
      /\ \A o \in Operators : Acct(a) \notin DOMAIN op[o].w
  BY DEF RotateCredential
<1>9. PICK r \in Rows : r = Acct(a) /\ y \in RowValues(r)
  BY <1>5, RowKinds
<1>10. QED
  BY <1>1, <1>5, <1>6, <1>7, <1>8, <1>9, RowChange

-----------------------------------------------------------------------------
(* The tables' invariant. *)

LEMMA EmptyRowsFine == AllFine(EmptyRows) /\ \A a \in Accounts : EmptyRows[Acct(a)].st = "new"
<1>1. DOMAIN EmptyRows = Rows
  BY DEF EmptyRows
<1>2. ASSUME NEW r \in Rows
      PROVE  /\ EmptyRows[r] \in RowValues(r)
             /\ r[1] = "acct" => EmptyRows[r] = [st |-> "new", cred |-> 0, rev |-> 0]
  <2>1. EmptyRows[r] = CASE r[1] = "acct" -> [st |-> "new", cred |-> 0, rev |-> 0]
                         [] r[1] = "model" -> NoModel
                         [] r = Conf("settings") -> "plain"
                         [] OTHER -> FALSE
    BY DEF EmptyRows
  <2>2. Conf("settings")[1] = "conf"
    BY DEF Conf
  <2>3. CASE r[1] = "acct"
    <3>1. EmptyRows[r] = [st |-> "new", cred |-> 0, rev |-> 0] /\ RowValues(r) = AccountRow
      BY <2>1, <2>2, <2>3 DEF RowValues
    <3>2. [st |-> "new", cred |-> 0, rev |-> 0] \in AccountRow
      BY Bounds DEF AccountRow
    <3>3. QED
      BY <3>1, <3>2
  <2>4. CASE r[1] = "model"
    <3>1. EmptyRows[r] = NoModel /\ RowValues(r) = ModelRow /\ r[1] # "acct"
      BY <2>1, <2>2, <2>4 DEF RowValues
    <3>2. QED
      BY <3>1, NoModelType
  <2>5. CASE r = Conf("settings")
    <3>1. EmptyRows[r] = "plain" /\ RowValues(r) = Settings /\ r[1] # "acct"
      BY <2>1, <2>2, <2>5 DEF RowValues
    <3>2. QED
      BY <3>1 DEF Settings
  <2>6. CASE r[1] # "acct" /\ r[1] # "model" /\ r # Conf("settings")
    <3>1. EmptyRows[r] = FALSE /\ RowValues(r) = BOOLEAN
      BY <2>1, <2>6 DEF RowValues
    <3>2. QED
      BY <2>6, <3>1
  <2>7. QED
    BY <2>3, <2>4, <2>5, <2>6
<1>3. IsTables(EmptyRows)
  BY <1>1, <1>2 DEF IsTables, IsWrites
<1>4. \A a \in Accounts : EmptyRows[Acct(a)] = [st |-> "new", cred |-> 0, rev |-> 0]
  <2>1. \A a : Acct(a)[1] = "acct"
    BY DEF Acct
  <2>2. QED
    BY <1>2, <2>1, RowKinds
<1>5. \A a \in Accounts : AccountFine(EmptyRows[Acct(a)]) /\ EmptyRows[Acct(a)].st = "new"
  BY <1>4 DEF AccountFine
<1>6. QED
  BY <1>3, <1>5 DEF AllFine

LEMMA HistoricalType ==
  ASSUME NEW S \in SUBSET Accounts, S # {}
  PROVE  /\ Historical(S) \in Version /\ Historical(S).status = "published"
         /\ Historical(S).schema = 1 /\ RoutesInside(Historical(S).snap)
<1>1. PICK revs, routes, fbs :
        /\ revs = [a \in S |-> 0] /\ routes = [m \in {SeedModel} |-> S]
        /\ fbs = [m \in {SeedModel} |-> None]
  OBVIOUS
<1>2. /\ revs \in [S -> 0..MaxCred] /\ routes \in [{SeedModel} -> SUBSET Accounts]
      /\ fbs \in [{SeedModel} -> Models \union {None}] /\ {SeedModel} \in SUBSET Models
  BY <1>1, Bounds, ConstantsAssumption
<1>3. /\ revs \in Partial(Accounts, 0..MaxCred) /\ routes \in Partial(Models, SUBSET Accounts)
      /\ fbs \in Partial(Models, Models \union {None})
  BY <1>2, PartialIntro
<1>4. PICK s : s = [revs |-> revs, routes |-> routes, fbs |-> fbs, settings |-> "plain", mcp |-> FALSE]
  OBVIOUS
<1>5. s \in SnapshotRow /\ RoutesInside(s)
  BY <1>1, <1>3, <1>4 DEF SnapshotRow, Settings, RoutesInside
<1>6. Historical(S) = [status |-> "published", src |-> 0, schema |-> 1, raced |-> FALSE, snap |-> s]
  BY <1>1, <1>4 DEF Historical
<1>7. QED
  BY <1>5, <1>6, Bounds DEF Version

LEMMA InitRows ==
  ASSUME Init
  PROVE  AllFine(db)
<1>1. CASE db = EmptyRows
  BY <1>1, EmptyRowsFine
<1>2. CASE db = Over(SeedRows, EmptyRows)
  <2>1. WriteFine(EmptyRows, SeedRows)
    BY EmptyRowsFine, SeedRowsFine, ConstantsAssumption
  <2>2. QED
    BY <1>2, <2>1, EmptyRowsFine, CommitFine
<1>3. QED
  BY <1>1, <1>2 DEF Init, ++

LEMMA InitVersions ==
  ASSUME Init
  PROVE  /\ versions \in Seq(Version) /\ Len(versions) <= 1
         /\ \A v \in 1..Len(versions) :
              /\ versions[v] \in Version /\ versions[v].status = "published"
              /\ versions[v].schema = 1 /\ RoutesInside(versions[v].snap)
<1>1. CASE versions = <<>>
  BY <1>1
<1>2. CASE \E S \in {SeedAccounts, Accounts} : versions = <<Historical(S)>>
  <2>1. PICK S \in {SeedAccounts, Accounts} : versions = <<Historical(S)>>
    BY <1>2
  <2>2. PICK x : x = Historical(S)
    OBVIOUS
  <2>3. x \in Version /\ x.status = "published" /\ x.schema = 1 /\ RoutesInside(x.snap)
    BY <2>2, HistoricalType, ConstantsAssumption
  <2>4. versions = <<x>>
    BY <2>1, <2>2
  <2>5. QED
    BY <2>3, <2>4
<1>3. QED
  BY <1>1, <1>2 DEF Init

LEMMA InitTables ==
  ASSUME Init
  PROVE  TablesInv
<1>1. \A o \in Operators : op[o] = Idle
  BY DEF Init
<1>2. /\ FleetOK /\ \A g \in Gateways : gw[g].run = None
  <2>1. PICK new \in [Gateways -> BOOLEAN] : gw = [g \in Gateways |-> Booted(new[g])]
    BY DEF Init
  <2>2. \A b \in BOOLEAN : Booted(b) \in Gateway /\ Booted(b).run = None
    BY DEF Booted, Gateway
  <2>3. gw \in [Gateways -> Gateway] /\ \A g \in Gateways : gw[g].run = None
    BY <2>1, <2>2
  <2>4. QED
    BY <2>3 DEF Init, FleetOK
<1>3. TypeOK
  <2>1. IsTables(db)
    BY InitRows DEF AllFine
  <2>2. versions \in Seq(Version) /\ Len(versions) <= MaxVersion
    BY InitVersions, LenProperties, Bounds
  <2>3. DOMAIN op = Operators /\ \A o \in Operators : IsTransaction(op[o])
    BY <1>1, IdleType DEF Init
  <2>4. boot = "migrating" /\ backup = None
    BY DEF Init
  <2>5. QED
    BY <1>2, <2>1, <2>2, <2>3, <2>4 DEF TypeOK, FleetOK
<1>4. AccountsFine
  BY InitRows DEF AllFine, AccountsFine
<1>5. LocksOK /\ OpenOK
  BY <1>1, IdleType DEF LocksOK, OpenOK
<1>6. BootOK
  BY <1>1, <1>2, IdleType, InitVersions DEF BootOK, Numbers
<1>7. QED
  BY <1>3, <1>4, <1>5, <1>6 DEF TablesInv

LEMMA TablesStep ==
  ASSUME TablesInv, [Next]_vars
  PROVE  TablesInv'
<1>1. CASE UNCHANGED vars
  <2>1. db' = db /\ versions' = versions /\ op' = op /\ boot' = boot /\ backup' = backup
        /\ gw' = gw /\ instance' = instance /\ lastAck' = lastAck
    BY <1>1 DEF vars
  <2>2. FleetOK' /\ (boot # "serving" => \A g \in Gateways : gw'[g].run = None)
    BY <2>1 DEF TablesInv, TypeOK, FleetOK, BootOK
  <2>3. QED
    BY <2>1, <2>2, FleetOnly
<1>2. CASE Migrate \/ Seed \/ Export \/ Publish \/ Rollback
  BY <1>2, MigrateTables, SeedTables, ExportTables, PublishTables, RollbackTables
<1>3. ASSUME NEW o \in Operators, Operate(o) PROVE TablesInv'
  BY <1>3, SubmitTables, CompileTables, CommitTables, AbortTables DEF Operate
<1>4. ASSUME NEW a \in Offering, Discover(a) PROVE TablesInv'
  BY <1>4, DiscoverTables
<1>5. ASSUME NEW a \in Accounts, RotateCredential(a) PROVE TablesInv'
  BY <1>5, RotateTables
<1>6. ASSUME NEW g \in Gateways, Serve(g) PROVE TablesInv'
  BY <1>6, ServeTables
<1>7. QED
  BY <1>1, <1>2, <1>3, <1>4, <1>5, <1>6 DEF Next

LEMMA TablesAlways == Spec => []TablesInv
<1>1. Init => TablesInv
  BY InitTables
<1>2. TablesInv /\ [Next]_vars => TablesInv'
  BY TablesStep
<1>3. QED
  BY <1>1, <1>2, PTL DEF Spec

\* Every row, transaction, version and gateway keeps its type, whatever the
\* operators submit: each change of the control API writes values its tables
\* can hold, and every stored snapshot names known accounts and models.
THEOREM TypeCorrect == Spec => []TypeOK
<1>1. TablesInv => TypeOK
  BY DEF TablesInv
<1>2. QED
  BY <1>1, TablesAlways, PTL

-----------------------------------------------------------------------------
(* The refinement of Rollout. *)

SamePublished == Numbers("published")' = Numbers("published")
MorePublished ==
  \E v \in 1..MaxVersion : /\ \A w \in Numbers("published") : w < v
                           /\ Numbers("published")' = Numbers("published") \union {v}
Idling == \A g \in Gateways : gw[g].run = None
Moves(g) ==
  /\ \A h \in Gateways \ {g} : gw'[h].run = gw[h].run
  /\ \/ gw'[g].run = gw[g].run
     \/ gw'[g].run = None
     \/ gw'[g].run \in Answers(g)

LEMMA SameVersions ==
  ASSUME versions' = versions
  PROVE  SamePublished
  BY DEF SamePublished, Numbers

\* The transactions of the operators publish nothing.
LEMMA OperateStep ==
  ASSUME TablesInv, NEW o \in Operators, Operate(o)
  PROVE  SamePublished /\ gw' = gw
<1>1. TypeOK
  BY DEF TablesInv
<1>2. gw' = gw
  BY DEF Operate, Submit, Compile, Commit, Abort, fleet
<1>3. CASE Submit(o)
  BY <1>2, <1>3, SameVersions DEF Submit
<1>4. CASE Compile(o)
  <2>1. CASE versions' = versions
    BY <1>2, <2>1, SameVersions
  <2>2. CASE \E x \in Version : /\ x.status = "open" /\ Len(versions) < MaxVersion
                                /\ versions' = Append(versions, x)
    <3>1. PICK x \in Version : /\ x.status = "open" /\ Len(versions) < MaxVersion
                               /\ versions' = Append(versions, x)
      BY <2>2
    <3>2. Numbers("published")' = Numbers("published")
                                    \union {v \in {Len(versions) + 1} : x.status = "published"}
      BY <1>1, <3>1, VersionAppend
    <3>3. QED
      BY <1>2, <3>1, <3>2 DEF SamePublished
  <2>3. QED
    BY <1>4, <2>1, <2>2, CompileFacts
<1>5. CASE Commit(o) \/ Abort(o)
  <2>1. PICK x \in Version : /\ x.status \in {"draft", "aborted"}
                             /\ versions' = [versions EXCEPT ![op[o].ver] = x]
    BY <1>5, CommitFacts, AbortFacts
  <2>2. PICK v \in 1..Len(versions) : v = op[o].ver /\ v \in Numbers("open")
    BY <1>1, <1>5, CommitFacts, AbortFacts, VersionFacts
  <2>3. versions' = [versions EXCEPT ![v] = x]
    BY <2>1, <2>2
  <2>4. \A t : Numbers(t)' = (Numbers(t) \ {v}) \union {w \in {v} : x.status = t}
    BY <1>1, <2>3, VersionChange
  <2>5. v \notin Numbers("published")
    BY <2>2 DEF Numbers
  <2>6. QED
    BY <1>2, <2>1, <2>4, <2>5 DEF SamePublished
<1>6. QED
  BY <1>3, <1>4, <1>5 DEF Operate

LEMMA RolloutStep ==
  ASSUME TablesInv, [Next]_vars
  PROVE  \/ gw' = gw /\ SamePublished
         \/ gw' = gw /\ MorePublished
         \/ gw' = gw /\ Idling /\ Numbers("published")' \subseteq Numbers("published")
         \/ SamePublished /\ \E g \in Gateways : Moves(g)
<1>1. TypeOK
  BY DEF TablesInv
<1>2. CASE UNCHANGED vars
  BY <1>2, SameVersions DEF vars
<1>3. CASE Migrate
  BY <1>3, MigrateFacts DEF Migrate, TablesInv, BootOK, Idling, fleet
<1>4. CASE Seed
  <2>1. gw' = gw
    BY <1>4 DEF Seed, fleet
  <2>2. CASE versions' = versions
    BY <2>1, <2>2, SameVersions
  <2>3. CASE \E x \in Version : /\ x.status = "published" /\ Len(versions) < MaxVersion
                                /\ versions' = Append(versions, x)
    <3>1. PICK x \in Version : /\ x.status = "published" /\ Len(versions) < MaxVersion
                               /\ versions' = Append(versions, x)
      BY <2>3
    <3>2. Numbers("published")' = Numbers("published")
                                    \union {v \in {Len(versions) + 1} : x.status = "published"}
      BY <1>1, <3>1, VersionAppend
    <3>3. Numbers("published")' = Numbers("published") \union {Len(versions) + 1}
      BY <3>1, <3>2
    <3>4. \A w \in Numbers("published") : w < Len(versions) + 1
      BY <1>1, VersionFacts
    <3>5. Len(versions) + 1 \in 1..MaxVersion
      BY <1>1, <3>1, VersionFacts, Bounds
    <3>6. QED
      BY <2>1, <3>3, <3>4, <3>5 DEF MorePublished
  <2>4. QED
    BY <1>4, <2>2, <2>3, SeedFacts
<1>5. CASE Export
  BY <1>5, SameVersions DEF Export, fleet
<1>6. CASE Publish
  <2>1. gw' = gw
    BY <1>6 DEF Publish, fleet
  <2>2. MorePublished
    BY <1>6, PublishFacts DEF MorePublished
  <2>3. QED
    BY <2>1, <2>2
<1>7. CASE Rollback
  <2>1. gw' = gw
    BY <1>7 DEF Rollback, fleet
  <2>2. PICK x \in Version : /\ x.status = "draft" /\ Len(versions) < MaxVersion
                             /\ versions' = Append(versions, x)
    BY <1>7, RollbackFacts
  <2>3. Numbers("published")' = Numbers("published")
                                  \union {v \in {Len(versions) + 1} : x.status = "published"}
    BY <1>1, <2>2, VersionAppend
  <2>4. QED
    BY <2>1, <2>2, <2>3 DEF SamePublished
<1>8. ASSUME NEW o \in Operators, Operate(o) PROVE SamePublished /\ gw' = gw
  BY <1>8, OperateStep
<1>9. ASSUME NEW a, Discover(a) \/ RotateCredential(a) PROVE SamePublished /\ gw' = gw
  BY <1>9, SameVersions DEF Discover, RotateCredential, fleet
<1>10. ASSUME NEW g \in Gateways, Serve(g) PROVE SamePublished /\ Moves(g)
  BY <1>10, ServeMoves, SameVersions DEF Moves
<1>11. QED
  BY <1>2, <1>3, <1>4, <1>5, <1>6, <1>7, <1>8, <1>9, <1>10 DEF Next

LEMMA RunsPublishedStep ==
  ASSUME TablesInv, RunsPublished, [Next]_vars
  PROVE  RunsPublished'
<1>1. CASE gw' = gw /\ (SamePublished \/ MorePublished)
  BY <1>1 DEF RunsPublished, SamePublished, MorePublished
<1>2. CASE gw' = gw /\ Idling
  BY <1>2 DEF RunsPublished, Idling
<1>3. CASE SamePublished /\ \E g \in Gateways : Moves(g)
  <2>1. PICK g \in Gateways : Moves(g)
    BY <1>3
  <2>2. \A h \in Gateways : gw'[h].run # None => gw'[h].run.ver \in Numbers("published")
    BY <2>1, AnswersFacts DEF TablesInv, RunsPublished, Moves
  <2>3. QED
    BY <1>3, <2>2 DEF RunsPublished, SamePublished
<1>4. QED
  BY <1>1, <1>2, <1>3, RolloutStep

LEMMA RunsPublishedAlways == Spec => []RunsPublished
<1>1. Init => RunsPublished
  <2>1. ASSUME Init PROVE \A g \in Gateways : gw[g].run = None
    BY <2>1, InitTables DEF TablesInv, BootOK, Init
  <2>2. QED
    BY <2>1 DEF RunsPublished
<1>2. TablesInv /\ RunsPublished /\ [Next]_vars => RunsPublished'
  BY RunsPublishedStep
<1>3. QED
  BY <1>1, <1>2, TablesAlways, PTL DEF Spec

\* The control plane and its gateways implement Rollout: a publish, whether of
\* a draft, of a rollback or of the tables as they are, is newer than whatever
\* was published before it, and a gateway only ever moves to a published
\* version that is not older than the one it runs, until it restarts.
THEOREM RolloutImplemented == Spec => ImplementsRollout
<1>1. Init => Abstract!Init
  <2> SUFFICES ASSUME Init PROVE Abstract!Init
    OBVIOUS
  <2>1. TablesInv
    BY InitTables
  <2>2. Numbers("published") \in SUBSET (1..MaxVersion)
    BY <2>1, VersionFacts DEF TablesInv
  <2>3. \A g \in Gateways : Running(g) = 0
    BY <2>1 DEF TablesInv, BootOK, Init, Running
  <2>4. QED
    BY <2>2, <2>3 DEF Abstract!Init
<1>2. TablesInv /\ RunsPublished /\ [Next]_vars => [Abstract!Next]_Abstract!vars
  <2> SUFFICES ASSUME TablesInv, RunsPublished, [Next]_vars
               PROVE  [Abstract!Next]_Abstract!vars
    OBVIOUS
  <2>1. CASE gw' = gw
    <3>1. [g \in Gateways |-> Running(g)]' = [g \in Gateways |-> Running(g)]
      BY <2>1 DEF Running
    <3>2. CASE SamePublished
      BY <3>1, <3>2 DEF SamePublished, Abstract!vars
    <3>3. CASE MorePublished
      BY <3>1, <3>3 DEF MorePublished, Abstract!Next, Abstract!Publish
    <3>4. CASE Idling /\ Numbers("published")' \subseteq Numbers("published")
      <4>1. \A g \in Gateways : [h \in Gateways |-> Running(h)][g] = 0
        BY <3>4 DEF Idling, Running
      <4>2. Abstract!Withdraw
        BY <3>1, <3>4, <4>1 DEF Abstract!Withdraw
      <4>3. QED
        BY <4>2 DEF Abstract!Next
    <3>5. CASE \E g \in Gateways : Moves(g) /\ SamePublished
      BY <3>2, <3>5
    <3>6. QED
      BY <3>2, <3>3, <3>4, <3>5, RolloutStep
  <2>2. CASE SamePublished /\ \E g \in Gateways : Moves(g)
    <3>1. PICK g \in Gateways : Moves(g)
      BY <2>2
    <3>2. PICK R : R = [h \in Gateways |-> Running(h)]
      OBVIOUS
    <3>3. PICK Q : Q = [h \in Gateways |-> Running(h)]'
      OBVIOUS
    <3>4. \A h \in Gateways : Q[h] = IF gw'[h].run = None THEN 0 ELSE gw'[h].run.ver
      BY <3>3 DEF Running
    <3>5. \A h \in Gateways : R[h] = IF gw[h].run = None THEN 0 ELSE gw[h].run.ver
      BY <3>2 DEF Running
    <3>6. \A h \in Gateways \ {g} : Q[h] = R[h]
      BY <3>1, <3>4, <3>5 DEF Moves
    <3>7. Q = [R EXCEPT ![g] = Q[g]]
      BY <3>2, <3>3, <3>6
    <3>8. CASE gw'[g].run = gw[g].run
      <4>1. Q[g] = R[g]
        BY <3>4, <3>5, <3>8
      <4>2. Q = R
        BY <3>2, <3>3, <3>6, <4>1
      <4>3. QED
        BY <2>2, <3>2, <3>3, <4>2 DEF SamePublished, Abstract!vars
    <3>9. CASE gw'[g].run = None
      <4>1. Q = [R EXCEPT ![g] = 0]
        BY <3>4, <3>7, <3>9
      <4>2. Abstract!Restart(g)
        BY <2>2, <3>2, <3>3, <4>1 DEF SamePublished, Abstract!Restart
      <4>3. QED
        BY <4>2 DEF Abstract!Next
    <3>10. CASE gw'[g].run \in Answers(g) /\ gw'[g].run # None
      <4>1. PICK v : v = gw'[g].run.ver
        OBVIOUS
      <4>2. v \in Numbers("published") /\ \A w \in Numbers("published") : w <= v
        BY <3>10, <4>1, AnswersFacts DEF TablesInv
      <4>3. Q = [R EXCEPT ![g] = v]
        BY <3>4, <3>7, <3>10, <4>1
      <4>4. v \in Nat
        BY <4>2, VersionFacts DEF TablesInv
      <4>5. R[g] <= v
        <5>1. CASE gw[g].run = None
          BY <3>5, <4>4, <5>1
        <5>2. CASE gw[g].run # None
          BY <3>5, <4>2, <5>2 DEF RunsPublished
        <5>3. QED
          BY <5>1, <5>2
      <4>6. Abstract!Adopt(g)
        BY <2>2, <3>2, <3>3, <4>2, <4>3, <4>5 DEF SamePublished, Abstract!Adopt
      <4>7. QED
        BY <4>6 DEF Abstract!Next
    <3>11. QED
      BY <3>1, <3>8, <3>9, <3>10 DEF Moves
  <2>3. QED
    BY <2>1, <2>2, RolloutStep
<1>3. QED
  BY <1>1, <1>2, TablesAlways, RunsPublishedAlways, PTL
     DEF Spec, ImplementsRollout, Abstract!Spec

-----------------------------------------------------------------------------
(* Revisions. *)

\* No step takes an account's revision back: a deleted account keeps its row,
\* and an import or a seed uses ids that were never used.
LEMMA RevisionsGrow ==
  ASSUME TablesInv, [Next]_vars
  PROVE  \A a \in Accounts : db[Acct(a)].rev <= db'[Acct(a)].rev
<1>1. \A a \in Accounts : db[Acct(a)].rev \in Nat
  BY AccountNumbers, Bounds DEF TablesInv, TypeOK
<1>2. CASE db' = db
  BY <1>1, <1>2
<1>3. CASE Seed
  BY <1>3, SeedFacts
<1>4. ASSUME NEW o \in Operators, Operate(o), ~Commit(o) PROVE db' = db
  BY <1>4 DEF Operate, Submit, Compile, Abort
<1>5. ASSUME NEW o \in Operators, Commit(o)
      PROVE  \A a \in Accounts : db[Acct(a)].rev <= db'[Acct(a)].rev
  BY <1>5, FineTables, OverlayFine DEF Commit
<1>6. ASSUME NEW a \in Offering, Discover(a)
      PROVE  \A b \in Accounts : db[Acct(b)].rev <= db'[Acct(b)].rev
  BY <1>6, DiscoverTables
<1>7. ASSUME NEW a \in Accounts, RotateCredential(a)
      PROVE  \A b \in Accounts : db[Acct(b)].rev <= db'[Acct(b)].rev
  BY <1>7, RotateTables
<1>8. ASSUME NEW g \in Gateways, Serve(g) PROVE db' = db
  BY <1>8, ServeMoves
<1>9. CASE Migrate \/ Export \/ Publish \/ Rollback \/ UNCHANGED vars
  BY <1>2, <1>9 DEF Migrate, Export, Publish, Rollback, vars
<1>10. QED
  BY <1>2, <1>3, <1>4, <1>5, <1>6, <1>7, <1>8, <1>9 DEF Next

LEMMA FleetStep ==
  ASSUME TablesInv, [Next]_vars
  PROVE  gw' = gw \/ \E g \in Gateways : db' = db /\ Moves(g)
<1>1. CASE Migrate \/ Seed \/ Export \/ Publish \/ Rollback \/ UNCHANGED vars
  BY <1>1 DEF Migrate, Seed, Export, Publish, Rollback, vars, fleet
<1>2. ASSUME NEW o, Operate(o) PROVE gw' = gw
  BY <1>2 DEF Operate, Submit, Compile, Commit, Abort, fleet
<1>3. ASSUME NEW a, Discover(a) \/ RotateCredential(a) PROVE gw' = gw
  BY <1>3 DEF Discover, RotateCredential, fleet
<1>4. ASSUME NEW g \in Gateways, Serve(g) PROVE db' = db /\ Moves(g)
  BY <1>4, ServeMoves DEF Moves
<1>5. QED
  BY <1>1, <1>2, <1>3, <1>4 DEF Next

LEMMA RunType ==
  ASSUME TypeOK, NEW g \in Gateways, gw[g].run # None
  PROVE  /\ gw[g].run \in IdentityRow /\ DOMAIN gw[g].run.revs \in SUBSET Accounts
         /\ \A a \in DOMAIN gw[g].run.revs : gw[g].run.revs[a] \in Nat
<1>1. PICK id \in IdentityRow : id = gw[g].run
  BY DEF TypeOK, Gateway
<1>2. id.revs \in Partial(Accounts, 0..MaxCred)
  BY DEF IdentityRow
<1>3. DOMAIN id.revs \in SUBSET Accounts /\ \A a \in DOMAIN id.revs : id.revs[a] \in 0..MaxCred
  BY <1>2, PartialElim
<1>4. QED
  BY <1>1, <1>3, Bounds

\* The revisions of an answer are those of the tables.
LEMMA AnswerRevisions ==
  ASSUME TypeOK, NEW g, NEW id \in Answers(g), id.env = 2
  PROVE  /\ DOMAIN id.revs \in SUBSET Accounts
         /\ \A a \in DOMAIN id.revs : id.revs[a] = db[Acct(a)].rev
<1>1. id \in IdentityRow /\ id = Identity(id.ver, versions[id.ver].snap, db)
  BY AnswersFacts
<1>2. id.revs \in Partial(Accounts, 0..MaxCred)
  BY <1>1 DEF IdentityRow
<1>3. DOMAIN id.revs \in SUBSET Accounts
  BY <1>2, PartialElim
<1>4. PICK s : id.revs = [a \in DOMAIN s.revs |-> db[Acct(a)].rev]
  BY <1>1 DEF Identity
<1>5. QED
  BY <1>3, <1>4

LEMMA RunsKnownStep ==
  ASSUME TablesInv, RunsKnown, [Next]_vars
  PROVE  RunsKnown'
<1>1. \A a \in Accounts : /\ db[Acct(a)].rev \in Nat /\ db'[Acct(a)].rev \in Nat
                          /\ db[Acct(a)].rev <= db'[Acct(a)].rev
  BY TablesStep, RevisionsGrow, AccountNumbers, Bounds DEF TablesInv, TypeOK
<1>2. ASSUME NEW h \in Gateways, gw'[h].run = gw[h].run, gw'[h].run # None, gw'[h].run.env = 2,
             NEW a \in DOMAIN gw'[h].run.revs
      PROVE  gw'[h].run.revs[a] <= db'[Acct(a)].rev
  <2>1. a \in Accounts /\ gw[h].run.revs[a] \in Nat
    BY <1>2, RunType DEF TablesInv
  <2>2. gw[h].run.revs[a] <= db[Acct(a)].rev
    BY <1>2 DEF RunsKnown
  <2>3. QED
    BY <1>1, <1>2, <2>1, <2>2
<1>3. CASE gw' = gw
  BY <1>2, <1>3 DEF RunsKnown
<1>4. CASE \E g \in Gateways : db' = db /\ Moves(g)
  <2>1. PICK g \in Gateways : db' = db /\ Moves(g)
    BY <1>4
  <2>2. ASSUME gw'[g].run \in Answers(g), gw'[g].run.env = 2, NEW a \in DOMAIN gw'[g].run.revs
        PROVE  gw'[g].run.revs[a] <= db'[Acct(a)].rev
    <3>1. PICK id \in Answers(g) : id = gw'[g].run
      BY <2>2
    <3>2. a \in Accounts /\ id.revs[a] = db[Acct(a)].rev
      BY <2>2, <3>1, AnswerRevisions DEF TablesInv
    <3>3. QED
      BY <1>1, <2>1, <3>1, <3>2
  <2>3. QED
    BY <1>2, <2>1, <2>2 DEF RunsKnown, Moves
<1>5. QED
  BY <1>3, <1>4, FleetStep

LEMMA RunsKnownAlways == Spec => []RunsKnown
<1>1. Init => RunsKnown
  <2>1. ASSUME Init PROVE \A g \in Gateways : gw[g].run = None
    BY <2>1, InitTables DEF TablesInv, BootOK, Init
  <2>2. QED
    BY <2>1 DEF RunsKnown
<1>2. TablesInv /\ RunsKnown /\ [Next]_vars => RunsKnown'
  BY RunsKnownStep
<1>3. QED
  BY <1>1, <1>2, TablesAlways, PTL DEF Spec

\* A gateway that reads envelope 2 never goes back to an older secret: the
\* endpoint materializes whatever it serves, a rollback to an old declaration
\* included, with the revisions the tables have now, and those only grow.
THEOREM RevisionsGoForward == Spec => RevisionsNeverGoBack
<1> DEFINE Kept ==
      \A g \in Gateways :
        LET old == gw[g].run
            new == gw'[g].run
        IN  (old # None /\ new # None /\ old.env = 2 /\ new.env = 2) =>
              \A a \in DOMAIN old.revs \cap DOMAIN new.revs : old.revs[a] <= new.revs[a]
<1>1. TablesInv /\ RunsKnown /\ [Next]_vars => [Kept]_vars
  <2> SUFFICES ASSUME TablesInv, RunsKnown, [Next]_vars,
                      NEW h \in Gateways, gw[h].run # None, gw'[h].run # None,
                      gw[h].run.env = 2, gw'[h].run.env = 2,
                      NEW a \in DOMAIN gw[h].run.revs, a \in DOMAIN gw'[h].run.revs
               PROVE  gw[h].run.revs[a] <= gw'[h].run.revs[a]
    BY Zenon
  <2>1. gw[h].run.revs[a] \in Nat /\ gw[h].run.revs[a] <= db[Acct(a)].rev
    BY RunType DEF TablesInv, RunsKnown
  <2>2. CASE gw'[h].run = gw[h].run
    BY <2>1, <2>2
  <2>3. CASE gw'[h].run \in Answers(h)
    <3>1. PICK id \in Answers(h) : id = gw'[h].run
      BY <2>3
    <3>2. id.revs[a] = db[Acct(a)].rev
      BY <3>1, AnswerRevisions DEF TablesInv
    <3>3. QED
      BY <2>1, <3>1, <3>2
  <2>4. QED
    BY <2>2, <2>3, FleetStep DEF Moves
<1>2. QED
  BY <1>1, TablesAlways, RunsKnownAlways, PTL DEF Spec, RevisionsNeverGoBack

-----------------------------------------------------------------------------
(* What versions hold. *)

\* What compileDeclarativeSnapshot checks makes the snapshot self-contained.
LEMMA CompiledFacts ==
  ASSUME NEW d, Compiles(d), NEW revs, DOMAIN revs = On(d)
  PROVE  Contained(Snapshot(revs, d)) /\ Matches(Snapshot(revs, d), d)
<1>1. PICK s : s = Snapshot(revs, d)
  OBVIOUS
<1>2. /\ s.revs = revs /\ s.settings = d[Conf("settings")]
      /\ s.routes = [m \in Live(d) |-> Eligible(d, m)]
      /\ s.fbs = [m \in Live(d) |-> d[Model(m)].fb]
  BY <1>1 DEF Snapshot
<1>3. \A m : Eligible(d, m) \subseteq On(d)
  BY DEF Eligible, Pooled
<1>4. \A m \in Live(d) : Eligible(d, m) # {} /\ d[Model(m)].fb \in Live(d) \union {None}
  BY DEF Compiles
<1>5. Contained(s)
  BY <1>2, <1>3, <1>4 DEF Contained, RoutesInside
<1>6. Matches(s, d)
  BY <1>2 DEF Matches
<1>7. QED
  BY <1>1, <1>5, <1>6

\* Tables that route alike: discovery and rotation change nothing else.
RoutesAlike(d, e) ==
  /\ \A a \in Accounts : d[Acct(a)].st = e[Acct(a)].st
  /\ \A m \in Models : d[Model(m)] = e[Model(m)]
  /\ \A m \in Models, a \in Accounts : d[Map(m, a)] = e[Map(m, a)]
  /\ d[Conf("settings")] = e[Conf("settings")]

LEMMA AlikeMatches ==
  ASSUME NEW d, NEW e, RoutesAlike(d, e)
  PROVE  On(d) = On(e) /\ \A s : Matches(s, d) => Matches(s, e)
<1>1. On(d) = On(e)
  BY DEF RoutesAlike, On
<1>2. Live(d) = Live(e) /\ Live(e) \subseteq Models
  BY DEF RoutesAlike, Live
<1>3. \A m \in Models : ~d[Model(m)].pool => Eligible(d, m) = Eligible(e, m)
  BY <1>1 DEF RoutesAlike, Eligible, Mapped
<1>4. ASSUME NEW s, Matches(s, d) PROVE Matches(s, e)
  <2>1. \A m \in Live(e) : d[Model(m)] = e[Model(m)]
    BY <1>2 DEF RoutesAlike
  <2>2. s.settings = e[Conf("settings")]
    BY <1>4 DEF Matches, RoutesAlike
  <2>3. QED
    BY <1>1, <1>2, <1>3, <1>4, <2>1, <2>2 DEF Matches
<1>5. QED
  BY <1>1, <1>4

LEMMA AlikeOver ==
  ASSUME NEW w, NEW d, NEW e, DOMAIN d = Rows, DOMAIN e = Rows, RoutesAlike(d, e)
  PROVE  RoutesAlike(Over(w, d), Over(w, e))
<1> DEFINE x == Over(w, d)
           y == Over(w, e)
<1>1. /\ DOMAIN x = DOMAIN w \union DOMAIN d
      /\ \A r \in DOMAIN w : x[r] = w[r]
      /\ \A r \in DOMAIN d \ DOMAIN w : x[r] = d[r]
  BY OverAt
<1>2. /\ DOMAIN y = DOMAIN w \union DOMAIN e
      /\ \A r \in DOMAIN w : y[r] = w[r]
      /\ \A r \in DOMAIN e \ DOMAIN w : y[r] = e[r]
  BY OverAt
<1> HIDE DEF x, y
<1>3. \A r \in Rows : d[r] = e[r] => x[r] = y[r]
  BY <1>1, <1>2
<1>4. \A a \in Accounts : x[Acct(a)].st = y[Acct(a)].st
  BY <1>1, <1>2, RowKinds DEF RoutesAlike
<1>5. /\ \A m \in Models : x[Model(m)] = y[Model(m)]
      /\ \A m \in Models, a \in Accounts : x[Map(m, a)] = y[Map(m, a)]
      /\ x[Conf("settings")] = y[Conf("settings")]
  BY <1>3, RowKinds DEF RoutesAlike
<1>6. QED
  BY <1>4, <1>5 DEF RoutesAlike, x, y

\* A transaction that a step leaves alone keeps what it read.
LEMMA CalmKept ==
  ASSUME TablesInv, NEW p \in Operators, Calm(p), op'[p] = op[p],
         DOMAIN db' = Rows, RoutesAlike(db, db'),
         op[p].pc = "stored" => versions'[op[p].ver].snap = versions[op[p].ver].snap
  PROVE  Calm(p)'
<1>1. PICK w : w = op[p].w
  OBVIOUS
<1>2. DOMAIN db = Rows
  BY DEF TablesInv, TypeOK, IsTables
<1>3. RoutesAlike(Over(w, db), Over(w, db'))
  BY <1>2, AlikeOver
<1>4. On(Over(w, db)) = On(Over(w, db')) /\ \A s : Matches(s, Over(w, db)) => Matches(s, Over(w, db'))
  BY <1>3, AlikeMatches
<1>5. Overlay(op[p].w) = Over(w, db) /\ Overlay(op[p].w)' = Over(w, db')
  BY <1>1 DEF Overlay, ++
<1>6. QED
  BY <1>4, <1>5 DEF Calm

LEMMA AlikeSame ==
  ASSUME NEW d
  PROVE  RoutesAlike(d, d)
  BY DEF RoutesAlike

\* Discovery and rotation leave the routing alone.
LEMMA AlikeSteps ==
  ASSUME TablesInv, NEW a, (a \in Offering /\ Discover(a)) \/ (a \in Accounts /\ RotateCredential(a))
  PROVE  DOMAIN db' = Rows /\ RoutesAlike(db, db')
<1>1. DOMAIN db = Rows
  BY DEF TablesInv, TypeOK, IsTables
<1>2. CASE a \in Offering /\ Discover(a)
  <2>1. PICK y : db' = [db EXCEPT ![Sees(a)] = y]
    BY <1>2, DiscoverTables
  <2>2. DOMAIN db' = Rows /\ \A r \in Rows : r # Sees(a) => db'[r] = db[r]
    BY <1>1, <2>1
  <2>3. /\ \A b \in Accounts : Acct(b) \in Rows /\ Acct(b) # Sees(a)
        /\ \A m \in Models : Model(m) \in Rows /\ Model(m) # Sees(a)
        /\ \A m \in Models, b \in Accounts : Map(m, b) \in Rows /\ Map(m, b) # Sees(a)
        /\ Conf("settings") \in Rows /\ Conf("settings") # Sees(a)
    BY RowKinds, RowsDiffer
  <2>4. QED
    BY <2>2, <2>3 DEF RoutesAlike
<1>3. CASE a \in Accounts /\ RotateCredential(a)
  <2>1. PICK y : db' = [db EXCEPT ![Acct(a)] = y] /\ y.st = db[Acct(a)].st
    BY <1>3, RotateTables
  <2>2. DOMAIN db' = Rows /\ \A r \in Rows : r # Acct(a) => db'[r] = db[r]
    BY <1>1, <2>1
  <2>3. /\ \A m \in Models : Model(m) \in Rows /\ Model(m) # Acct(a)
        /\ \A m \in Models, b \in Accounts : Map(m, b) \in Rows /\ Map(m, b) # Acct(a)
        /\ Conf("settings") \in Rows /\ Conf("settings") # Acct(a)
    BY RowKinds, RowsDiffer
  <2>4. \A b \in Accounts : db'[Acct(b)].st = db[Acct(b)].st
    <3>1. \A b \in Accounts : Acct(b) \in Rows
      BY RowKinds
    <3>2. db'[Acct(a)] = y
      BY <1>1, <1>3, <2>1, <3>1
    <3>3. QED
      BY <2>1, <2>2, <3>1, <3>2
  <2>5. QED
    BY <2>2, <2>3, <2>4 DEF RoutesAlike
<1>4. QED
  BY <1>2, <1>3

\* A publish, in full.
LEMMA PublishMoves ==
  ASSUME TablesInv, Publish
  PROVE  \/ \E v \in Candidates, x \in Version :
              /\ \A w \in Candidates : w <= v
              /\ x.status = "published" /\ x.schema = versions[v].schema
              /\ x.src = versions[v].src /\ x.raced = versions[v].raced
              /\ x.snap = versions[v].snap
              /\ versions' = [versions EXCEPT ![v] = x]
         \/ \E x \in Version :
              /\ Candidates = {} /\ x.status = "published" /\ x.schema = 2
              /\ x.snap = Snapshot(Revisions(db), db) /\ Compiles(db)
              /\ Len(versions) < MaxVersion /\ versions' = Append(versions, x)
<1>1. TypeOK
  BY DEF TablesInv
<1>2. CASE Candidates # {}
  <2>1. PICK v \in Candidates : v = Newest(Candidates) /\ \A w \in Candidates : w <= v
    <3>1. Candidates \in SUBSET (1..Len(versions)) /\ Len(versions) \in Nat
      BY <1>1, VersionFacts DEF Candidates
    <3>2. QED
      BY <1>2, <3>1, NewestFacts
  <2>2. PICK z \in Version : z = versions[v]
    BY <1>1, VersionFacts DEF Candidates
  <2>3. PICK x : x = [z EXCEPT !.status = "published"]
    OBVIOUS
  <2>4. /\ x \in Version /\ x.status = "published" /\ x.schema = z.schema
        /\ x.src = z.src /\ x.raced = z.raced /\ x.snap = z.snap
    BY <2>3 DEF Version
  <2>5. versions' = [versions EXCEPT ![v].status = "published"]
    BY <1>2, <2>1 DEF Publish
  <2>6. versions' = [versions EXCEPT ![v] = x]
    BY <2>2, <2>3, <2>5
  <2>7. QED
    BY <2>1, <2>2, <2>4, <2>6
<1>3. CASE Candidates = {}
  <2>1. PICK x : /\ x = [status |-> "published", src |-> 0, schema |-> 2, raced |-> FALSE,
                         snap |-> Snapshot(Revisions(db), db)]
                 /\ versions' = Append(versions, x) /\ Len(versions) < MaxVersion /\ Compiles(db)
    BY <1>3 DEF Stored, Publish
  <2>2. x \in Version
    <3>1. Revisions(db) \in Partial(Accounts, 0..MaxCred) /\ IsTables(db) /\ 0 \in 0..MaxVersion
      BY <1>1, Bounds, RevisionsType DEF TypeOK
    <3>2. QED
      BY <2>1, <3>1, CompiledType
  <2>3. x.status = "published" /\ x.schema = 2 /\ x.snap = Snapshot(Revisions(db), db)
    BY <2>1
  <2>4. QED
    BY <1>3, <2>1, <2>2, <2>3
<1>4. QED
  BY <1>2, <1>3

LEMMA StoreAppend ==
  ASSUME TypeOK, StoreOK, NEW x \in Version, Holds(x), Len(versions) < MaxVersion,
         versions' = Append(versions, x)
  PROVE  StoreOK'
<1>1. /\ Len(versions') = Len(versions) + 1 /\ versions'[Len(versions) + 1] = x
      /\ \A v \in 1..Len(versions) : versions'[v] = versions[v]
  BY VersionAppend
<1>2. 1..Len(versions') = 1..Len(versions) \union {Len(versions) + 1}
  BY <1>1, VersionFacts
<1>3. QED
  BY <1>1, <1>2 DEF StoreOK

LEMMA StoreChange ==
  ASSUME TypeOK, StoreOK, NEW v \in 1..Len(versions), NEW x \in Version, Holds(x),
         versions' = [versions EXCEPT ![v] = x]
  PROVE  StoreOK'
<1>1. /\ Len(versions') = Len(versions) /\ versions'[v] = x
      /\ \A w \in 1..Len(versions) \ {v} : versions'[w] = versions[w]
  BY VersionChange
<1>2. QED
  BY <1>1 DEF StoreOK

LEMMA StoreSame ==
  ASSUME StoreOK, versions' = versions
  PROVE  StoreOK'
  BY DEF StoreOK

\* A version compiled from one set of tables holds.
LEMMA CompiledHolds ==
  ASSUME NEW d, Compiles(d), NEW x, x.schema = 2, x.snap = Snapshot(Revisions(d), d)
  PROVE  Holds(x)
<1>1. DOMAIN Revisions(d) = On(d)
  BY DEF Revisions
<1>2. Contained(x.snap)
  BY <1>1, CompiledFacts
<1>3. QED
  BY <1>2 DEF Holds

LEMMA StoreStep ==
  ASSUME TablesInv, ContentInv, [Next]_vars
  PROVE  StoreOK'
<1>1. TypeOK /\ StoreOK
  BY DEF TablesInv, ContentInv
<1>2. CASE versions' = versions
  BY <1>1, <1>2, StoreSame
<1>3. CASE Migrate
  <2>1. /\ Len(versions') = Len(versions)
        /\ \A v \in 1..Len(versions) : versions'[v] = Sanitized(versions[v])
    BY <1>3, MigrateFacts
  <2>2. ASSUME NEW x \in Version, Holds(x) PROVE Holds(Sanitized(x))
    <3>1. PICK y : y = Sanitized(x)
      OBVIOUS
    <3>2. /\ y.status \in {x.status, "invalid"} /\ y.src = x.src /\ y.raced = x.raced
          /\ y.schema = 2 \/ y.status = "invalid"
          /\ y.schema = 1 => x.schema = 1 /\ y.snap = x.snap
          /\ \/ y.snap = x.snap /\ y.schema = x.schema
             \/ /\ x.schema = 1 /\ DOMAIN y.snap.revs = DOMAIN x.snap.revs
                /\ y.snap.routes = x.snap.routes
                /\ \A m \in DOMAIN y.snap.fbs : y.snap.fbs[m] = None
      BY <1>1, <3>1, SanitizedFacts DEF TypeOK
    <3>3. CASE x.schema = 2
      <4>1. y = x
        BY <3>1, <3>3 DEF Sanitized
      <4>2. QED
        BY <2>2, <3>1, <4>1
    <3>4. CASE x.schema = 1
      <4>1. RoutesInside(x.snap)
        BY <2>2, <3>4 DEF Holds
      <4>2. CASE y.snap = x.snap /\ y.schema = x.schema
        BY <3>1, <3>4, <4>1, <4>2 DEF Holds
      <4>3. CASE /\ DOMAIN y.snap.revs = DOMAIN x.snap.revs /\ y.snap.routes = x.snap.routes
                 /\ \A m \in DOMAIN y.snap.fbs : y.snap.fbs[m] = None
        <5>1. RoutesInside(y.snap)
          BY <4>1, <4>3 DEF RoutesInside
        <5>2. QED
          BY <3>1, <4>3, <5>1 DEF Holds, Contained
      <4>4. QED
        BY <3>2, <4>2, <4>3
    <3>5. QED
      BY <3>3, <3>4 DEF Version
  <2>3. QED
    BY <1>1, <2>1, <2>2, VersionFacts DEF StoreOK
<1>4. CASE Seed
  <2>1. CASE versions' = versions
    BY <1>2, <2>1
  <2>2. ASSUME NEW x \in Version, x.schema = 2, x.snap = Snapshot(Revisions(db'), db'),
               Compiles(db'), Len(versions) < MaxVersion, versions' = Append(versions, x)
        PROVE  StoreOK'
    <3>1. Holds(x)
      BY <2>2, CompiledHolds
    <3>2. QED
      BY <1>1, <2>2, <3>1, StoreAppend
  <2>3. QED
    BY <1>4, <2>1, <2>2, SeedFacts
<1>5. CASE Publish
  <2>1. ASSUME NEW v \in Candidates, NEW x \in Version, x.status = "published",
               x.schema = versions[v].schema, x.src = versions[v].src,
               x.raced = versions[v].raced, x.snap = versions[v].snap,
               versions' = [versions EXCEPT ![v] = x]
        PROVE  StoreOK'
    <3>1. v \in 1..Len(versions) /\ versions[v].status = "draft" /\ Holds(versions[v])
      BY <1>1, VersionFacts DEF Candidates, Numbers, StoreOK
    <3>2. Holds(x)
      BY <2>1, <3>1 DEF Holds
    <3>3. QED
      BY <1>1, <2>1, <3>1, <3>2, StoreChange
  <2>2. ASSUME NEW x \in Version, x.schema = 2, x.snap = Snapshot(Revisions(db), db),
               Compiles(db), Len(versions) < MaxVersion, versions' = Append(versions, x)
        PROVE  StoreOK'
    <3>1. Holds(x)
      BY <2>2, CompiledHolds
    <3>2. QED
      BY <1>1, <2>2, <3>1, StoreAppend
  <2>3. QED
    BY <1>5, <2>1, <2>2, PublishMoves
<1>6. CASE Rollback
  <2>1. PICK x \in Version : /\ x.schema = 2 /\ x.src # 0 /\ Len(versions) < MaxVersion
                             /\ versions' = Append(versions, x)
    BY <1>6, RollbackFacts
  <2>2. Holds(x)
    BY <2>1 DEF Holds
  <2>3. QED
    BY <1>1, <2>1, <2>2, StoreAppend
<1>7. ASSUME NEW o \in Operators, Compile(o) PROVE StoreOK'
  <2>1. CASE versions' = versions
    BY <1>2, <2>1
  <2>2. ASSUME NEW x \in Version, x.status = "open", x.schema = 2, Len(versions) < MaxVersion,
               versions' = Append(versions, x)
        PROVE  StoreOK'
    <3>1. Holds(x)
      BY <2>2 DEF Holds
    <3>2. QED
      BY <1>1, <2>2, <3>1, StoreAppend
  <2>3. QED
    BY <1>7, <2>1, <2>2, CompileFacts
<1>8. ASSUME NEW o \in Operators, Commit(o) PROVE StoreOK'
  <2>1. PICK x \in Version :
          /\ x.raced = (op[o].raced \/ Overtaken(o)) /\ x.schema = versions[op[o].ver].schema
          /\ x.snap = versions[op[o].ver].snap
          /\ versions' = [versions EXCEPT ![op[o].ver] = x]
    BY <1>8, CommitFacts
  <2>2. PICK v \in 1..Len(versions) : v = op[o].ver
    BY <1>1, <1>8, CommitFacts, VersionFacts
  <2>3. ~x.raced => Contained(x.snap)
    BY <1>8, <2>1 DEF ContentInv, Undisturbed, Calm, Commit
  <2>4. x.schema = 1 => RoutesInside(x.snap)
    BY <1>1, <2>1, <2>2 DEF StoreOK, Holds
  <2>5. Holds(x)
    BY <2>3, <2>4 DEF Holds
  <2>6. versions' = [versions EXCEPT ![v] = x]
    BY <2>1, <2>2
  <2>7. QED
    BY <1>1, <2>5, <2>6, StoreChange
<1>9. ASSUME NEW o \in Operators, Abort(o) PROVE StoreOK'
  <2>1. PICK x \in Version :
          /\ x.status = "aborted" /\ x.schema = versions[op[o].ver].schema
          /\ x.snap = versions[op[o].ver].snap
          /\ versions' = [versions EXCEPT ![op[o].ver] = x]
    BY <1>9, AbortFacts
  <2>2. PICK v \in 1..Len(versions) : v = op[o].ver
    BY <1>1, <1>9, AbortFacts, VersionFacts
  <2>3. Holds(x)
    BY <1>1, <2>1, <2>2 DEF StoreOK, Holds
  <2>4. versions' = [versions EXCEPT ![v] = x]
    BY <2>1, <2>2
  <2>5. QED
    BY <1>1, <2>3, <2>4, StoreChange
<1>10. ASSUME NEW o \in Operators, Submit(o) PROVE versions' = versions
  BY <1>10 DEF Submit
<1>11. ASSUME NEW a, Discover(a) \/ RotateCredential(a) PROVE versions' = versions
  BY <1>11 DEF Discover, RotateCredential
<1>12. ASSUME NEW g \in Gateways, Serve(g) PROVE versions' = versions
  BY <1>12, ServeMoves
<1>13. CASE Export \/ UNCHANGED vars
  BY <1>2, <1>13 DEF Export, vars
<1>14. QED
  BY <1>2, <1>3, <1>4, <1>5, <1>6, <1>7, <1>8, <1>9, <1>10, <1>11, <1>12, <1>13
     DEF Next, Operate

LEMMA SnapAppended ==
  ASSUME TablesInv, NEW x \in Version, Len(versions) < MaxVersion,
         versions' = Append(versions, x), NEW p \in Operators, op[p].pc = "stored"
  PROVE  versions'[op[p].ver].snap = versions[op[p].ver].snap
<1>1. op[p].ver \in 1..Len(versions) /\ TypeOK
  BY VersionFacts DEF TablesInv, OpenOK
<1>2. \A v \in 1..Len(versions) : versions'[v] = versions[v]
  BY <1>1, VersionAppend
<1>3. QED
  BY <1>1, <1>2

LEMMA SnapChanged ==
  ASSUME TablesInv, NEW v \in 1..Len(versions), NEW x \in Version,
         versions' = [versions EXCEPT ![v] = x], NEW p \in Operators, op[p].pc = "stored",
         op[p].ver # v
  PROVE  versions'[op[p].ver].snap = versions[op[p].ver].snap
<1>1. op[p].ver \in 1..Len(versions) /\ TypeOK
  BY VersionFacts DEF TablesInv, OpenOK
<1>2. \A w \in 1..Len(versions) \ {v} : versions'[w] = versions[w]
  BY <1>1, VersionChange
<1>3. QED
  BY <1>1, <1>2

LEMMA CalmIdle ==
  ASSUME NEW p \in Operators, op[p] = Idle
  PROVE  Calm(p)
  BY IdleType DEF Calm

LEMMA UndisturbedStep ==
  ASSUME TablesInv, Undisturbed, [Next]_vars
  PROVE  Undisturbed'
<1>1. TypeOK /\ DOMAIN db = Rows /\ DOMAIN op = Operators
  BY DEF TablesInv, TypeOK, IsTables
<1>2. ASSUME NEW p \in Operators, op'[p] = op[p], db' = db,
             op[p].pc = "stored" => versions'[op[p].ver].snap = versions[op[p].ver].snap
      PROVE  Calm(p)'
  <2>1. DOMAIN db' = Rows /\ RoutesAlike(db, db')
    BY <1>1, <1>2, AlikeSame
  <2>2. QED
    BY <1>2, <2>1, CalmKept DEF Undisturbed
<1>3. CASE op' = op /\ db' = db /\ versions' = versions
  BY <1>2, <1>3 DEF Undisturbed
<1>4. CASE Migrate \/ Seed
  <2>1. \A p \in Operators : op'[p] = Idle
    BY <1>4 DEF Migrate, Seed, TablesInv, BootOK, LocksOK
  <2>2. \A p \in Operators : ~op'[p].raced /\ op'[p].pc = "idle"
    BY <2>1, IdleType
  <2>3. QED
    BY <2>2 DEF Undisturbed, Calm
<1>5. CASE Publish
  <2>1. op' = op /\ db' = db
    BY <1>5 DEF Publish
  <2>2. ASSUME NEW v \in Candidates, NEW x \in Version, versions' = [versions EXCEPT ![v] = x],
               NEW p \in Operators
        PROVE  Calm(p)'
    <3>1. v \in 1..Len(versions) /\ v \notin Numbers("open")
      BY <1>1, VersionFacts DEF Candidates, Numbers
    <3>2. op[p].pc = "stored" => op[p].ver # v
      BY <3>1 DEF TablesInv, OpenOK
    <3>3. op[p].pc = "stored" => versions'[op[p].ver].snap = versions[op[p].ver].snap
      BY <2>2, <3>1, <3>2, SnapChanged
    <3>4. QED
      BY <1>2, <2>1, <3>3
  <2>3. ASSUME NEW x \in Version, Len(versions) < MaxVersion, versions' = Append(versions, x),
               NEW p \in Operators
        PROVE  Calm(p)'
    <3>1. op[p].pc = "stored" => versions'[op[p].ver].snap = versions[op[p].ver].snap
      BY <2>3, SnapAppended
    <3>2. QED
      BY <1>2, <2>1, <3>1
  <2>4. QED
    BY <1>5, <2>2, <2>3, PublishMoves DEF Undisturbed
<1>6. CASE Rollback
  <2>1. op' = op /\ db' = db
    BY <1>6 DEF Rollback
  <2>2. PICK x \in Version : Len(versions) < MaxVersion /\ versions' = Append(versions, x)
    BY <1>6, RollbackFacts
  <2>3. \A p \in Operators : op[p].pc = "stored" =>
          versions'[op[p].ver].snap = versions[op[p].ver].snap
    BY <2>2, SnapAppended
  <2>4. QED
    BY <1>2, <2>1, <2>3 DEF Undisturbed
<1>7. ASSUME NEW o \in Operators, Submit(o) PROVE Undisturbed'
  <2>1. versions' = versions /\ db' = db
    BY <1>7 DEF Submit
  <2>2. PICK w : op' = [op EXCEPT ![o] = [pc |-> "reading", w |-> w,
                            revs |-> Revisions(Overlay(w)), ver |-> 0, raced |-> FALSE]]
    BY <1>7, SubmitFacts
  <2>3. PICK R : R = Revisions(Overlay(w))
    OBVIOUS
  <2>4. op'[o] = [pc |-> "reading", w |-> w, revs |-> R, ver |-> 0, raced |-> FALSE]
    BY <1>1, <2>2, <2>3
  <2>5. \A p \in Operators \ {o} : op'[p] = op[p]
    BY <1>1, <2>2
  <2>6. op'[o].pc = "reading" /\ op'[o].w = w /\ op'[o].revs = R
    BY <2>4
  <2>7. Overlay(w)' = Overlay(w)
    BY <2>1 DEF Overlay, ++
  <2>8. DOMAIN R = On(Overlay(w))
    BY <2>3 DEF Revisions
  <2>9. Calm(o)'
    BY <2>6, <2>7, <2>8 DEF Calm
  <2>10. QED
    BY <1>2, <2>1, <2>5, <2>9 DEF Undisturbed
<1>8. ASSUME NEW o \in Operators, Compile(o) PROVE Undisturbed'
  <2>1. db' = db
    BY <1>8 DEF Compile
  <2>2. CASE versions' = versions /\ op' = [op EXCEPT ![o] = Idle]
    <3>1. op'[o] = Idle /\ \A p \in Operators \ {o} : op'[p] = op[p]
      BY <1>1, <2>2
    <3>2. op'[o].pc = "idle"
      BY <3>1, IdleType
    <3>3. Calm(o)'
      BY <3>2 DEF Calm
    <3>4. QED
      BY <1>2, <2>1, <2>2, <3>1, <3>3 DEF Undisturbed
  <2>3. ASSUME NEW x \in Version, NEW y,
               x.snap = Snapshot(op[o].revs, Overlay(op[o].w)), Compiles(Overlay(op[o].w)),
               Len(versions) < MaxVersion, versions' = Append(versions, x),
               y.pc = "stored", y.w = op[o].w, y.ver = Len(versions) + 1,
               y.raced = op[o].raced, op' = [op EXCEPT ![o] = y]
        PROVE  Undisturbed'
    <3>1. op'[o] = y /\ \A p \in Operators \ {o} : op'[p] = op[p]
      BY <1>1, <2>3
    <3>2. \A p \in Operators \ {o} : op[p].pc = "stored" =>
            versions'[op[p].ver].snap = versions[op[p].ver].snap
      BY <2>3, SnapAppended
    <3>3. \A p \in Operators \ {o} : Calm(p)'
      BY <1>2, <2>1, <3>1, <3>2
    <3>4. versions'[y.ver] = x
      BY <1>1, <2>3, VersionAppend
    <3>5. PICK d : d = Overlay(op[o].w)
      OBVIOUS
    <3>6. Overlay(op[o].w)' = d
      <4>1. op'[o].w = op[o].w
        BY <2>3, <3>1
      <4>2. QED
        BY <2>1, <3>5, <4>1 DEF Overlay, ++
    <3>7. ASSUME ~op[o].raced PROVE Contained(x.snap) /\ Matches(x.snap, d)
      <4>1. DOMAIN op[o].revs = On(d)
        BY <1>8, <3>5, <3>7 DEF Compile, Undisturbed, Calm
      <4>2. QED
        BY <2>3, <3>5, <4>1, CompiledFacts
    <3>8. Calm(o)'
      BY <2>3, <3>1, <3>4, <3>6, <3>7 DEF Calm
    <3>9. QED
      BY <3>3, <3>8 DEF Undisturbed
  <2>4. QED
    BY <1>8, <2>2, <2>3, CompileFacts
<1>9. ASSUME NEW o \in Operators, Commit(o) PROVE Undisturbed'
  <2>1. /\ op'[o] = Idle
        /\ \A p \in Operators \ {o} : op'[p].pc = op[p].pc /\ op'[p].raced = (op[p].pc # "idle")
    BY <1>9, CommitFacts
  <2>2. op'[o].pc = "idle"
    BY <2>1, IdleType
  <2>3. \A p \in Operators : op'[p].pc # "idle" => op'[p].raced
    BY <2>1, <2>2
  <2>4. QED
    BY <2>3 DEF Undisturbed, Calm
<1>10. ASSUME NEW o \in Operators, Abort(o) PROVE Undisturbed'
  <2>1. db' = db /\ op' = [op EXCEPT ![o] = Idle] /\ op[o].pc = "stored"
    BY <1>10 DEF Abort
  <2>2. op'[o] = Idle /\ \A p \in Operators \ {o} : op'[p] = op[p]
    BY <1>1, <2>1
  <2>3. PICK x \in Version : versions' = [versions EXCEPT ![op[o].ver] = x]
    BY <1>10, AbortFacts
  <2>4. PICK v \in 1..Len(versions) : v = op[o].ver
    BY <1>1, <1>10, AbortFacts, VersionFacts
  <2>5. versions' = [versions EXCEPT ![v] = x]
    BY <2>3, <2>4
  <2>6. \A p \in Operators \ {o} : op[p].pc = "stored" => op[p].ver # v
    BY <2>1, <2>4 DEF TablesInv, OpenOK
  <2>7. \A p \in Operators \ {o} : op[p].pc = "stored" =>
          versions'[op[p].ver].snap = versions[op[p].ver].snap
    BY <2>5, <2>6, SnapChanged
  <2>8. op'[o].pc = "idle"
    BY <2>2, IdleType
  <2>9. Calm(o)'
    BY <2>8 DEF Calm
  <2>10. QED
    BY <1>2, <2>1, <2>2, <2>7, <2>9 DEF Undisturbed
<1>11. ASSUME NEW a, (a \in Offering /\ Discover(a)) \/ (a \in Accounts /\ RotateCredential(a))
       PROVE  Undisturbed'
  <2>1. op' = op /\ versions' = versions
    BY <1>11 DEF Discover, RotateCredential
  <2>2. DOMAIN db' = Rows /\ RoutesAlike(db, db')
    BY <1>11, AlikeSteps
  <2>3. QED
    BY <2>1, <2>2, CalmKept DEF Undisturbed
<1>12. ASSUME NEW g \in Gateways, Serve(g) PROVE op' = op /\ db' = db /\ versions' = versions
  BY <1>12, ServeMoves
<1>13. CASE Export \/ UNCHANGED vars
  BY <1>3, <1>13 DEF Export, vars
<1>14. CASE \E o \in Operators : Operate(o)
  BY <1>7, <1>8, <1>9, <1>10, <1>14 DEF Operate
<1>15. CASE \E g \in Gateways : Serve(g)
  BY <1>3, <1>12, <1>15
<1>16. CASE (\E a \in Offering : Discover(a)) \/ (\E a \in Accounts : RotateCredential(a))
  BY <1>11, <1>16
<1>17. QED
  BY <1>4, <1>5, <1>6, <1>13, <1>14, <1>15, <1>16 DEF Next

LEMMA ContentAlways == Spec => []ContentInv
<1>1. Init => ContentInv
  <2> SUFFICES ASSUME Init PROVE ContentInv
    OBVIOUS
  <2>1. \A p \in Operators : op[p] = Idle
    BY DEF Init
  <2>2. Undisturbed
    BY <2>1, CalmIdle DEF Undisturbed
  <2>3. StoreOK
    BY InitVersions DEF StoreOK, Holds
  <2>4. QED
    BY <2>2, <2>3 DEF ContentInv
<1>2. TablesInv /\ ContentInv /\ [Next]_vars => ContentInv'
  BY StoreStep, UndisturbedStep DEF ContentInv
<1>3. QED
  BY <1>1, <1>2, TablesAlways, PTL DEF Spec

\* A version that can be published, and whose transaction nobody overlapped,
\* routes only to accounts it carries and falls back only to models it
\* carries, whether it was compiled, seeded or migrated from an old row.
THEOREM VersionsAreContained == Spec => []SelfContained
<1>1. TablesInv /\ ContentInv => SelfContained
  <2> SUFFICES ASSUME TablesInv, ContentInv PROVE SelfContained
    OBVIOUS
  <2>1. DOMAIN versions = 1..Len(versions)
    BY VersionFacts DEF TablesInv
  <2>2. QED
    BY <2>1 DEF ContentInv, StoreOK, Holds, SelfContained, Contained, RoutesInside
<1>2. QED
  BY <1>1, TablesAlways, ContentAlways, PTL

-----------------------------------------------------------------------------
(* Nothing committed is lost from the next publish. *)

\* Steps that store no draft and publish nothing keep the candidates.
LEMMA SameCandidates ==
  ASSUME Numbers("draft")' = Numbers("draft"), Numbers("published")' = Numbers("published")
  PROVE  Candidates' = Candidates
  BY DEF Candidates

LEMMA NoCandidates ==
  ASSUME Candidates' = {}
  PROVE  DraftsOK'
  BY DEF DraftsOK

\* Candidates that stay, in tables that route alike, with no transaction that
\* has stored its draft under an older number.
LEMMA DraftsKept ==
  ASSUME DraftsOK, Candidates' = Candidates, RoutesAlike(db, db'),
         \A v \in Candidates : versions'[v] = versions[v],
         \A o \in Operators : op'[o].pc = "stored" =>
           \/ op[o].pc = "stored" /\ op'[o].ver = op[o].ver
           \/ \A v \in Candidates : v < op'[o].ver
  PROVE  DraftsOK'
<1>1. \A v \in Candidates : Exact(v)' = Exact(v)
  BY DEF Exact
<1>2. \A s : Matches(s, db) => Matches(s, db')
  BY AlikeMatches
<1>3. \A v \in Candidates' : Exact(v)' => \A o \in Operators : op'[o].pc = "stored" => v < op'[o].ver
  BY <1>1 DEF DraftsOK
<1>4. \A v \in Candidates' :
        (Exact(v)' /\ \A w \in Candidates' : w <= v) => Matches(versions'[v].snap, db')
  BY <1>1, <1>2 DEF DraftsOK
<1>5. QED
  BY <1>3, <1>4 DEF DraftsOK

LEMMA CandidateType ==
  ASSUME TypeOK
  PROVE  Candidates \in SUBSET (1..Len(versions)) /\ Len(versions) \in Nat
  BY VersionFacts DEF Candidates

LEMMA CommitDrafts ==
  ASSUME TablesInv, Undisturbed, DraftsOK, NEW o \in Operators, Commit(o)
  PROVE  DraftsOK'
<1>1. TypeOK /\ op[o].pc = "stored"
  BY DEF TablesInv, Commit
<1>2. PICK v \in 1..Len(versions) : v = op[o].ver /\ versions[v].status = "open"
  BY <1>1, CommitFacts, VersionFacts DEF Numbers
<1>3. PICK x \in Version :
        /\ x.status = "draft" /\ x.raced = (op[o].raced \/ Overtaken(o))
        /\ x.snap = versions[v].snap /\ versions' = [versions EXCEPT ![v] = x]
  BY <1>2, CommitFacts
<1>4. /\ versions'[v] = x /\ \A w \in 1..Len(versions) \ {v} : versions'[w] = versions[w]
      /\ \A t : Numbers(t)' = (Numbers(t) \ {v}) \union {w \in {v} : x.status = t}
  BY <1>1, <1>3, VersionChange
<1>5. Numbers("draft")' = Numbers("draft") \union {v} /\ Numbers("published")' = Numbers("published")
  BY <1>2, <1>3, <1>4 DEF Numbers
<1>6. v \notin Candidates /\ Candidates' \subseteq Candidates \union {v} /\ Candidates \subseteq Candidates'
  BY <1>2, <1>5 DEF Candidates, Numbers
<1>7. \A w \in Candidates : w \in 1..Len(versions) /\ versions'[w] = versions[w]
  BY <1>1, <1>4, <1>6, CandidateType
<1>8. ASSUME Exact(v)'
      PROVE  /\ \A p \in Operators : op'[p].pc # "stored"
             /\ Matches(versions'[v].snap, db')
  <2>1. ~op[o].raced /\ ~Overtaken(o)
    BY <1>3, <1>4, <1>8 DEF Exact
  <2>2. \A p \in Operators \ {o} : op[p].pc = "idle"
    BY <2>1 DEF Overtaken
  <2>3. \A p \in Operators : op'[p].pc # "stored"
    BY <2>2, CommitFacts, IdleType
  <2>4. Matches(versions[v].snap, Overlay(op[o].w))
    BY <1>1, <1>2, <2>1 DEF Undisturbed, Calm
  <2>5. QED
    BY <1>3, <1>4, <2>3, <2>4 DEF Commit
<1>9. ASSUME NEW w \in Candidates, Exact(w)'
      PROVE  /\ \A p \in Operators : op'[p].pc = "stored" => w < op'[p].ver
             /\ w < v /\ v \in Candidates'
  <2>1. Exact(w)
    BY <1>7, <1>9 DEF Exact
  <2>2. \A p \in Operators : op[p].pc = "stored" => w < op[p].ver
    BY <2>1 DEF DraftsOK
  <2>3. \A p \in Operators : op'[p].pc = "stored" => op[p].pc = "stored" /\ op'[p].ver = op[p].ver
    BY CommitFacts, IdleType
  <2>4. w < v
    BY <1>1, <1>2, <2>2
  <2>5. v \in Candidates'
    <3>1. \A u \in Numbers("published") : u < w
      BY DEF Candidates
    <3>2. /\ \A u \in Numbers("published") : u \in Nat
          /\ w \in Nat /\ v \in Nat
      BY <1>1, <1>7, VersionFacts
    <3>3. \A u \in Numbers("published") : u < v
      BY <2>4, <3>1, <3>2
    <3>4. QED
      BY <1>5, <3>3 DEF Candidates
  <2>6. QED
    BY <2>2, <2>3, <2>4, <2>5
<1>10. \A w \in Candidates' :
         Exact(w)' => \A p \in Operators : op'[p].pc = "stored" => w < op'[p].ver
  BY <1>6, <1>8, <1>9
<1>11. ASSUME NEW w \in Candidates', Exact(w)', \A u \in Candidates' : u <= w
       PROVE  Matches(versions'[w].snap, db')
  <2>1. CASE w = v
    BY <1>8, <1>11, <2>1
  <2>2. CASE w # v
    <3>1. w \in Candidates
      BY <1>6, <2>2
    <3>2. w < v /\ v <= w /\ w \in Nat /\ v \in Nat
      BY <1>1, <1>7, <1>9, <1>11, <3>1, VersionFacts
    <3>3. QED
      BY <3>2
  <2>3. QED
    BY <2>1, <2>2
<1>12. QED
  BY <1>10, <1>11 DEF DraftsOK

LEMMA PublishDrafts ==
  ASSUME TablesInv, Publish
  PROVE  Candidates' = {}
<1>1. TypeOK
  BY DEF TablesInv
<1>2. ASSUME NEW v \in Candidates, NEW x \in Version, \A w \in Candidates : w <= v,
             x.status = "published", versions' = [versions EXCEPT ![v] = x]
      PROVE  Candidates' = {}
  <2>1. v \in 1..Len(versions) /\ versions[v].status = "draft"
        /\ \A w \in Numbers("published") : w < v
    BY <1>1, CandidateType DEF Candidates, Numbers
  <2>2. \A t : Numbers(t)' = (Numbers(t) \ {v}) \union {w \in {v} : x.status = t}
    BY <1>1, <1>2, <2>1, VersionChange
  <2>3. Numbers("draft")' \subseteq Numbers("draft") /\ v \in Numbers("published")'
        /\ Numbers("published") \subseteq Numbers("published")'
    BY <1>2, <2>1, <2>2 DEF Numbers
  <2>4. ASSUME NEW w \in Candidates' PROVE FALSE
    <3>1. w \in Numbers("draft") /\ v < w /\ \A u \in Numbers("published") : u < w
      BY <2>3 DEF Candidates
    <3>2. w \in Candidates
      BY <3>1 DEF Candidates
    <3>3. w <= v /\ w \in Nat /\ v \in Nat
      BY <1>1, <1>2, <2>1, <3>2, CandidateType
    <3>4. QED
      BY <3>1, <3>3
  <2>5. QED
    BY <2>4
<1>3. ASSUME NEW x \in Version, x.status = "published", Len(versions) < MaxVersion,
             versions' = Append(versions, x)
      PROVE  Candidates' = {}
  <2>1. \A t : Numbers(t)' = Numbers(t) \union {v \in {Len(versions) + 1} : x.status = t}
    BY <1>1, <1>3, VersionAppend
  <2>2. Numbers("draft")' = Numbers("draft") /\ Len(versions) + 1 \in Numbers("published")'
    BY <1>3, <2>1
  <2>3. \A w \in Numbers("draft") : w \in Nat /\ w <= Len(versions) /\ Len(versions) \in Nat
    BY <1>1, VersionFacts
  <2>4. ASSUME NEW w \in Candidates' PROVE FALSE
    <3>1. w \in Numbers("draft") /\ Len(versions) + 1 < w
      BY <2>2 DEF Candidates
    <3>2. QED
      BY <2>3, <3>1
  <2>5. QED
    BY <2>4
<1>4. QED
  BY <1>2, <1>3, PublishMoves

LEMMA RollbackDrafts ==
  ASSUME TablesInv, DraftsOK, Rollback
  PROVE  DraftsOK'
<1>1. TypeOK /\ op' = op
  BY DEF TablesInv, Rollback
<1>2. PICK x \in Version : /\ x.status = "draft" /\ x.src # 0 /\ Len(versions) < MaxVersion
                           /\ versions' = Append(versions, x)
  BY RollbackFacts
<1>3. PICK n : n = Len(versions) + 1
  OBVIOUS
<1>4. /\ versions'[n] = x /\ \A v \in 1..Len(versions) : versions'[v] = versions[v]
      /\ \A t : Numbers(t)' = Numbers(t) \union {v \in {n} : x.status = t}
  BY <1>1, <1>2, <1>3, VersionAppend
<1>5. Numbers("draft")' = Numbers("draft") \union {n} /\ Numbers("published")' = Numbers("published")
  BY <1>2, <1>4
<1>6. n \in Candidates' /\ Candidates' = Candidates \union {n}
  <2>1. \A w \in Numbers("published") : w < n
    BY <1>1, <1>3, VersionFacts
  <2>2. QED
    BY <1>5, <2>1 DEF Candidates
<1>7. ~Exact(n)'
  BY <1>2, <1>4 DEF Exact
<1>8. \A v \in Candidates : /\ v \in 1..Len(versions) /\ v \in Nat /\ v < n /\ n \in Nat
                            /\ versions'[v] = versions[v]
  BY <1>1, <1>3, <1>4, CandidateType
<1>9. \A v \in Candidates : Exact(v)' = Exact(v)
  BY <1>8 DEF Exact
<1>10. \A v \in Candidates' :
         Exact(v)' => \A o \in Operators : op'[o].pc = "stored" => v < op'[o].ver
  BY <1>1, <1>6, <1>7, <1>9 DEF DraftsOK
<1>11. ASSUME NEW v \in Candidates', Exact(v)', \A w \in Candidates' : w <= v
       PROVE  Matches(versions'[v].snap, db')
  <2>1. v \in Candidates
    BY <1>6, <1>7, <1>11
  <2>2. n <= v
    BY <1>6, <1>11
  <2>3. QED
    BY <1>8, <2>1, <2>2
<1>12. QED
  BY <1>10, <1>11 DEF DraftsOK

LEMMA DraftsStep ==
  ASSUME TablesInv, Undisturbed, DraftsOK, [Next]_vars
  PROVE  DraftsOK'
<1>1. TypeOK /\ DOMAIN op = Operators
  BY DEF TablesInv, TypeOK
<1>2. ASSUME versions' = versions, RoutesAlike(db, db'),
             \A p \in Operators : op'[p].pc = "stored" =>
               op[p].pc = "stored" /\ op'[p].ver = op[p].ver
      PROVE  DraftsOK'
  <2>1. Numbers("draft")' = Numbers("draft") /\ Numbers("published")' = Numbers("published")
    BY <1>2 DEF Numbers
  <2>2. QED
    BY <1>2, <2>1, SameCandidates, DraftsKept
<1>3. CASE op' = op /\ db' = db /\ versions' = versions
  BY <1>2, <1>3, AlikeSame
<1>4. CASE Migrate
  <2>1. Numbers("draft")' = {}
    BY <1>4, MigrateFacts
  <2>2. QED
    BY <2>1, NoCandidates DEF Candidates
<1>5. CASE Seed
  <2>1. Numbers("draft") = {}
    BY <1>5 DEF Seed, TablesInv, BootOK
  <2>2. CASE versions' = versions
    <3>1. Numbers("draft")' = {}
      BY <2>1, <2>2 DEF Numbers
    <3>2. QED
      BY <3>1, NoCandidates DEF Candidates
  <2>3. ASSUME NEW x \in Version, x.status = "published", Len(versions) < MaxVersion,
               versions' = Append(versions, x)
        PROVE  DraftsOK'
    <3>1. \A t : Numbers(t)' = Numbers(t) \union {v \in {Len(versions) + 1} : x.status = t}
      BY <1>1, <2>3, VersionAppend
    <3>2. Numbers("draft")' = {}
      BY <2>1, <2>3, <3>1
    <3>3. QED
      BY <3>2, NoCandidates DEF Candidates
  <2>4. QED
    BY <1>5, <2>2, <2>3, SeedFacts
<1>6. CASE Publish
  BY <1>6, PublishDrafts, NoCandidates
<1>7. CASE Rollback
  BY <1>7, RollbackDrafts
<1>8. ASSUME NEW o \in Operators, Submit(o) PROVE DraftsOK'
  <2>1. versions' = versions /\ db' = db
    BY <1>8 DEF Submit
  <2>2. PICK w : op' = [op EXCEPT ![o] = [pc |-> "reading", w |-> w,
                            revs |-> Revisions(Overlay(w)), ver |-> 0, raced |-> FALSE]]
    BY <1>8, SubmitFacts
  <2>3. PICK y : /\ y = [pc |-> "reading", w |-> w, revs |-> Revisions(Overlay(w)),
                         ver |-> 0, raced |-> FALSE]
                 /\ op' = [op EXCEPT ![o] = y]
    BY <2>2
  <2>4. op'[o] = y /\ y.pc = "reading" /\ \A p \in Operators \ {o} : op'[p] = op[p]
    BY <1>1, <2>3
  <2>5. \A p \in Operators : op'[p].pc = "stored" => op[p].pc = "stored" /\ op'[p].ver = op[p].ver
    BY <2>4
  <2>6. QED
    BY <1>2, <2>1, <2>5, AlikeSame
<1>9. ASSUME NEW o \in Operators, Compile(o) PROVE DraftsOK'
  <2>1. db' = db /\ RoutesAlike(db, db')
    BY <1>9, AlikeSame DEF Compile
  <2>2. CASE versions' = versions /\ op' = [op EXCEPT ![o] = Idle]
    <3>1. op'[o] = Idle /\ \A p \in Operators \ {o} : op'[p] = op[p]
      BY <1>1, <2>2
    <3>2. op'[o].pc = "idle"
      BY <3>1, IdleType
    <3>3. \A p \in Operators : op'[p].pc = "stored" => op[p].pc = "stored" /\ op'[p].ver = op[p].ver
      BY <3>1, <3>2
    <3>4. QED
      BY <1>2, <2>1, <2>2, <3>3
  <2>3. ASSUME NEW x \in Version, NEW y, x.status = "open",
               Len(versions) < MaxVersion, versions' = Append(versions, x),
               y.ver = Len(versions) + 1, op' = [op EXCEPT ![o] = y]
        PROVE  DraftsOK'
    <3>1. op'[o] = y /\ \A p \in Operators \ {o} : op'[p] = op[p]
      BY <1>1, <2>3
    <3>2. /\ \A v \in 1..Len(versions) : versions'[v] = versions[v]
          /\ \A t : Numbers(t)' = Numbers(t) \union {v \in {Len(versions) + 1} : x.status = t}
      BY <1>1, <2>3, VersionAppend
    <3>3. Numbers("draft")' = Numbers("draft") /\ Numbers("published")' = Numbers("published")
      BY <2>3, <3>2
    <3>4. Candidates' = Candidates
      BY <3>3, SameCandidates
    <3>5. \A v \in Candidates : versions'[v] = versions[v] /\ v < Len(versions) + 1
      BY <1>1, <3>2, CandidateType
    <3>6. \A p \in Operators : op'[p].pc = "stored" =>
            \/ op[p].pc = "stored" /\ op'[p].ver = op[p].ver
            \/ \A v \in Candidates : v < op'[p].ver
      BY <2>3, <3>1, <3>5
    <3>7. QED
      BY <2>1, <3>4, <3>5, <3>6, DraftsKept
  <2>4. QED
    BY <1>9, <2>2, <2>3, CompileFacts
<1>10. ASSUME NEW o \in Operators, Commit(o) PROVE DraftsOK'
  BY <1>10, CommitDrafts
<1>11. ASSUME NEW o \in Operators, Abort(o) PROVE DraftsOK'
  <2>1. db' = db /\ op' = [op EXCEPT ![o] = Idle] /\ RoutesAlike(db, db')
    BY <1>11, AlikeSame DEF Abort
  <2>2. op'[o] = Idle /\ \A p \in Operators \ {o} : op'[p] = op[p]
    BY <1>1, <2>1
  <2>3. op'[o].pc = "idle"
    BY <2>2, IdleType
  <2>4. PICK x \in Version : x.status = "aborted" /\ versions' = [versions EXCEPT ![op[o].ver] = x]
    BY <1>11, AbortFacts
  <2>5. PICK v \in 1..Len(versions) : v = op[o].ver /\ versions[v].status = "open"
    BY <1>1, <1>11, AbortFacts, VersionFacts DEF Numbers
  <2>6. versions' = [versions EXCEPT ![v] = x]
    BY <2>4, <2>5
  <2>7. /\ \A w \in 1..Len(versions) \ {v} : versions'[w] = versions[w]
        /\ \A t : Numbers(t)' = (Numbers(t) \ {v}) \union {w \in {v} : x.status = t}
    BY <1>1, <2>6, VersionChange
  <2>8. Numbers("draft")' = Numbers("draft") /\ Numbers("published")' = Numbers("published")
    BY <2>4, <2>5, <2>7 DEF Numbers
  <2>9. \A w \in Candidates : versions'[w] = versions[w]
    BY <1>1, <2>5, <2>7, CandidateType DEF Candidates, Numbers
  <2>10. \A p \in Operators : op'[p].pc = "stored" => op[p].pc = "stored" /\ op'[p].ver = op[p].ver
    BY <2>2, <2>3
  <2>11. QED
    BY <2>1, <2>8, <2>9, <2>10, SameCandidates, DraftsKept
<1>12. ASSUME NEW a, (a \in Offering /\ Discover(a)) \/ (a \in Accounts /\ RotateCredential(a))
       PROVE  DraftsOK'
  <2>1. op' = op /\ versions' = versions
    BY <1>12 DEF Discover, RotateCredential
  <2>2. RoutesAlike(db, db')
    BY <1>12, AlikeSteps
  <2>3. QED
    BY <1>2, <2>1, <2>2
<1>13. ASSUME NEW g \in Gateways, Serve(g) PROVE op' = op /\ db' = db /\ versions' = versions
  BY <1>13, ServeMoves
<1>14. CASE Export \/ UNCHANGED vars
  BY <1>3, <1>14 DEF Export, vars
<1>15. CASE \E o \in Operators : Operate(o)
  BY <1>8, <1>9, <1>10, <1>11, <1>15 DEF Operate
<1>16. CASE \E g \in Gateways : Serve(g)
  BY <1>3, <1>13, <1>16
<1>17. CASE (\E a \in Offering : Discover(a)) \/ (\E a \in Accounts : RotateCredential(a))
  BY <1>12, <1>17
<1>18. QED
  BY <1>4, <1>5, <1>6, <1>7, <1>14, <1>15, <1>16, <1>17 DEF Next

LEMMA DraftsAlways == Spec => []DraftsOK
<1>1. Init => DraftsOK
  <2> SUFFICES ASSUME Init PROVE DraftsOK
    OBVIOUS
  <2>1. Numbers("draft") = {}
    BY InitTables DEF TablesInv, BootOK, Init
  <2>2. QED
    BY <2>1 DEF DraftsOK, Candidates
<1>2. TablesInv /\ ContentInv /\ DraftsOK /\ [Next]_vars => DraftsOK'
  BY DraftsStep DEF ContentInv
<1>3. QED
  BY <1>1, <1>2, TablesAlways, ContentAlways, PTL DEF Spec

\* The next publish puts in force what the tables say: the newest draft lacks
\* no committed change, unless its transaction overlapped another or it is a
\* rollback.
THEOREM DraftsLoseNothing == Spec => []NothingLost
<1>1. TablesInv /\ DraftsOK => NothingLost
  <2> SUFFICES ASSUME TablesInv, DraftsOK, Candidates # {},
                      ~versions[Newest(Candidates)].raced, versions[Newest(Candidates)].src = 0
               PROVE  LET s == versions[Newest(Candidates)].snap
                      IN  /\ DOMAIN s.revs = On(db)
                          /\ DOMAIN s.routes = Live(db)
                          /\ \A m \in {n \in Live(db) : ~db[Model(n)].pool} :
                               s.routes[m] = Eligible(db, m)
                          /\ \A m \in Live(db) : s.fbs[m] = db[Model(m)].fb
                          /\ s.settings = db[Conf("settings")]
    BY DEF NothingLost
  <2>1. PICK v : v = Newest(Candidates)
    OBVIOUS
  <2>2. v \in Candidates /\ \A w \in Candidates : w <= v
    BY <2>1, CandidateType, NewestFacts DEF TablesInv
  <2>3. Exact(v)
    BY <2>1 DEF Exact
  <2>4. Matches(versions[v].snap, db)
    BY <2>2, <2>3 DEF DraftsOK
  <2>5. QED
    BY <2>1, <2>4 DEF Matches
<1>2. QED
  BY <1>1, TablesAlways, DraftsAlways, PTL
=============================================================================
