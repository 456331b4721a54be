----------------------------- MODULE Publication -----------------------------
(***************************************************************************)
(* How a change an operator makes reaches the gateways: the control        *)
(* plane's tables and their transactions (every change compiles and stores *)
(* a draft), the publish gate, rollback, the one-time migration and the    *)
(* seed that run before the server starts, model discovery, and the        *)
(* gateways that poll, adopt and acknowledge snapshots.                    *)
(*                                                                         *)
(* The database is one function from rows to values.  A transaction keeps  *)
(* its own writes until it commits; PostgreSQL's default isolation lets    *)
(* each of its statements see whatever other transactions have committed   *)
(* by then, so the account list and the rest of a compilation are read in  *)
(* two steps.                                                              *)
(***************************************************************************)
EXTENDS Integers, FiniteSets, Sequences, Functions

CONSTANTS
  Accounts, Models, Keys,
  Codex,        \* the accounts whose adapter is not openai-compatible
  Offering,     \* the accounts on which discovery may find the pooled model
  Gateways, Operators, None,
  MinActive,    \* MIN_ACTIVE_GATEWAYS
  SeedAccounts, SeedModel, SeedKey,   \* what the seed inserts
  Edits,        \* the kinds of change the operators make, a subset of EditKinds
  MaxVersion,   \* bound on the rows of config_versions
  MaxCred       \* bound on the secrets an account has had

EditKinds ==
  {"create_accounts", "patch_account", "delete_account", "delete_provider",
   "create_models", "import_selection", "patch_model", "delete_model",
   "rename_model", "key", "mcp", "settings", "import"}

\* The seed inserts accounts; the bound leaves room for the version it stores
\* beside a historical one.
ASSUME ConstantsAssumption ==
  /\ Codex \subseteq Accounts /\ Offering \subseteq Accounts
  /\ SeedAccounts \subseteq Accounts /\ SeedModel \in Models /\ SeedKey \in Keys
  /\ SeedAccounts # {} /\ None \notin Models /\ Edits \subseteq EditKinds
  /\ MinActive \in Nat
  /\ MaxVersion \in Nat \ {0, 1}
  /\ MaxCred \in Nat \ {0}

VARIABLES
  db,         \* the committed rows
  versions,   \* config_versions, in order of their numbers
  op,         \* the transaction each operator has open
  boot,       \* what the control plane's container has reached
  backup,     \* the rows as of the last export
  gw,         \* the gateway processes
  instance,   \* gateway_instances
  lastAck     \* the newest row of gateway_config_acks of each gateway

vars == <<db, versions, op, boot, backup, gw, instance, lastAck>>
control == <<db, versions, op, boot, backup>>
fleet == <<gw, instance, lastAck>>

-----------------------------------------------------------------------------
(* The tables. *)

\* The writes of f over those of g.
Over(f, g) ==
  [r \in DOMAIN f \union DOMAIN g |-> IF r \in DOMAIN f THEN f[r] ELSE g[r]]
f ++ g == Over(f, g)

Acct(a) == <<"acct", a>>           \* [st, cred, rev]
Sees(a) == <<"sees", a>>           \* discovery found the pooled model there
Model(m) == <<"model", m>>         \* [st, pool, fb]
Map(m, a) == <<"map", m, a>>       \* a row of model_account_mappings
Key(k) == <<"key", k>>             \* enabled
Conf(c) == <<"conf", c>>           \* "settings" and "mcp"

Rows == {Acct(a) : a \in Accounts} \union {Sees(a) : a \in Accounts}
          \union {Model(m) : m \in Models}
          \union {Map(m, a) : m \in Models, a \in Accounts}
          \union {Key(k) : k \in Keys} \union {Conf("settings"), Conf("mcp")}

\* An account's id is used once: "new" before it exists, "gone" after.
AccountRow == [st : {"new", "on", "off", "gone"},
               cred : 0..MaxCred, rev : 0..MaxCred]
ModelRow == [st : {"absent", "on", "off"}, pool : BOOLEAN,
             fb : Models \union {None}]

\* Values the API's schemas accept; the gateway's Build refuses the second
\* (strategy least_used, a cache_ttl that is no duration).
Settings == {"plain", "unadoptable"}

NoModel == [st |-> "absent", pool |-> FALSE, fb |-> None]

Exists(d, a) == d[Acct(a)].st \in {"on", "off"}
On(d) == {a \in Accounts : d[Acct(a)].st = "on"}
Live(d) == {m \in Models : d[Model(m)].st = "on"}
Mapped(d, m) == {a \in Accounts : d[Map(m, a)]}
Pooled(d) == {a \in On(d) : d[Sees(a)]}

\* Wrong variant: a disabled account still serves.
Eligible_AnyState(d, m) ==
  IF d[Model(m)].pool THEN {a \in Accounts : d[Sees(a)]} ELSE Mapped(d, m)

\* The accounts that serve a model: its mappings, or for a pooled model every
\* enabled account discovery has seen it on.
Eligible(d, m) == IF d[Model(m)].pool THEN Pooled(d) ELSE Mapped(d, m) \cap On(d)

-----------------------------------------------------------------------------
(* Compilation. *)

\* Following first fallbacks from some model comes back to a model passed.
FallbackCycle(d) ==
  \E S \in (SUBSET Live(d)) \ {{}} : \A m \in S : d[Model(m)].fb \in S

\* What compileDeclarativeSnapshot checks, and throws on.
Compiles(d) ==
  /\ \A m \in Live(d) : /\ Eligible(d, m) # {}
                        /\ d[Model(m)].fb \in Live(d) \union {None}
  /\ ~FallbackCycle(d)
  /\ \E k \in Keys : d[Key(k)]

Revisions(d) == [a \in On(d) |-> d[Acct(a)].rev]

\* A declarative snapshot from the account list read first, and the rest.
Snapshot(revs, d) ==
  [revs |-> revs,
   routes |-> [m \in Live(d) |-> Eligible(d, m)],
   fbs |-> [m \in Live(d) |-> d[Model(m)].fb],
   settings |-> d[Conf("settings")],
   mcp |-> d[Conf("mcp")]]

\* materializeRuntimeSnapshot: today's secrets and MCP servers under an old
\* declaration.  It fails when an account has gone or never had a secret.
Materializes(s, d) ==
  \A a \in DOMAIN s.revs : Exists(d, a) /\ d[Acct(a)].cred > 0

\* Wrong variant: the revisions the version was compiled with.
Identity_Declared(v, s, d) ==
  [env |-> 2, ver |-> v, revs |-> s.revs,
   creds |-> [a \in DOMAIN s.revs |-> d[Acct(a)].cred],
   mcp |-> s.mcp \/ d[Conf("mcp")]]

Identity(v, s, d) ==
  [env |-> 2, ver |-> v,
   revs |-> [a \in DOMAIN s.revs |-> d[Acct(a)].rev],
   creds |-> [a \in DOMAIN s.revs |-> d[Acct(a)].cred],
   mcp |-> s.mcp \/ d[Conf("mcp")]]

\* The legacy envelope carries the secrets and nothing about revisions.
LegacyIdentity(v, s, d) ==
  [env |-> 1, ver |-> v, revs |-> <<>>,
   creds |-> [a \in DOMAIN s.revs |-> d[Acct(a)].cred], mcp |-> FALSE]

\* The gateway's config.Build.
Builds(s) ==
  /\ s.settings # "unadoptable"
  /\ \A m \in DOMAIN s.routes : s.routes[m] \subseteq DOMAIN s.revs

-----------------------------------------------------------------------------
(* The changes.  Each is the set of writes one request makes. *)

Write(row, value) == [r \in {row} |-> value]

\* POST accounts, accounts/batch: the secret is optional for one account and
\* always present in a batch.
CreateAccounts(d) ==
  LET fresh == {a \in Accounts : d[Acct(a)].st = "new"}
      row(c) == [st |-> "on", cred |-> c, rev |-> 1]
  IN  {[r \in {Acct(a) : a \in S} |-> row(1)] : S \in (SUBSET fresh) \ {{}}}
        \union {Write(Acct(a), row(0)) : a \in fresh}

\* PATCH accounts: enabled, or a new secret, which leaves the revision alone.
PatchAccount(d) ==
  LET there == {a \in Accounts : Exists(d, a)}
      other(a) == IF d[Acct(a)].st = "on" THEN "off" ELSE "on"
  IN  {Write(Acct(a), [d[Acct(a)] EXCEPT !.st = other(a)]) : a \in there}
        \union {Write(Acct(a), [d[Acct(a)] EXCEPT !.cred = @ + 1]) :
                  a \in {b \in there : d[Acct(b)].cred < MaxCred}}

\* deleteAccountResource, for one account or one after the other: mappings and
\* discoveries go too, and every enabled model left without an account is
\* disabled.
DeleteAccounts(d, S) ==
  LET orphan(m) == /\ d[Model(m)].st = "on"
                   /\ IF d[Model(m)].pool THEN Pooled(d) \subseteq S
                                          ELSE Mapped(d, m) \subseteq S
      mapped == {p \in Models \X S : d[Map(p[1], p[2])]}
  IN  [r \in {Acct(a) : a \in S} |-> [d[r] EXCEPT !.st = "gone"]]
        ++ [r \in {Sees(a) : a \in {b \in S : d[Sees(b)]}} |-> FALSE]
        ++ [r \in {Map(p[1], p[2]) : p \in mapped} |-> FALSE]
        ++ [r \in {Model(m) : m \in {n \in Models : orphan(n)}} |->
              [d[r] EXCEPT !.st = "off"]]

\* DELETE accounts/:id.
DeleteAccount(d) ==
  {DeleteAccounts(d, {a}) : a \in {b \in Accounts : Exists(d, b)}}

\* DELETE providers/:id: every account, and the pooled models keep their row
\* without the provider (ON DELETE SET NULL).
DeleteProvider(d) ==
  LET gone == DeleteAccounts(d, {a \in Accounts : Exists(d, a)})
      pools == {Model(m) : m \in {n \in Models : d[Model(n)].pool}}
  IN  {[r \in pools |-> [d[r] EXCEPT !.pool = FALSE, !.st = "off"]] ++ gone}

\* POST models and models/batch: new models, all with the same row, and their
\* mappings.
NewModels(S, maps, row) ==
  [r \in {Model(m) : m \in S} |-> row]
    ++ [r \in {Map(p[1], p[2]) : p \in maps} |-> TRUE]
Free(d) == {m \in Models : d[Model(m)].st = "absent"}

\* POST models: a manual model on accounts A, or a pooled one, which has none.
ModelOn(d, A, row) == {NewModels({m}, {m} \X A, row) : m \in Free(d)}
NewRows(A) == {row \in ModelRow : row.st # "absent" /\ row.pool = (A = {})}
CreateModel(d) ==
  UNION {UNION {ModelOn(d, A, row) : row \in NewRows(A)} :
           A \in SUBSET {a \in Accounts : Exists(d, a)}}

\* models/batch: manual models, each on the enabled accounts its line names; a
\* line that names none is skipped.
Batch(d, row) ==
  {NewModels({p[1] : p \in maps}, maps, row) :
     maps \in (SUBSET (Free(d) \X On(d))) \ {{}}}
CreateModelBatch(d) ==
  UNION {Batch(d, [st |-> "on", pool |-> FALSE, fb |-> f]) : f \in Models \union {None}}

\* models/import-selection: a pooled model that some enabled account offers.
ImportSelection(d) ==
  {Write(Model(m), [st |-> "on", pool |-> TRUE, fb |-> None]) :
     m \in {n \in Models : d[Model(n)].st = "absent" /\ Pooled(d) # {}}}

\* PATCH models: enabled, the first fallback, or the accounts.
Toggled(d, m) ==
  Write(Model(m), [d[Model(m)] EXCEPT !.st = IF @ = "on" THEN "off" ELSE "on"])
Remapped(d, m, A) ==
  [r \in {Map(m, a) : a \in {b \in Accounts : d[Map(m, b)] # (b \in A)}} |-> ~d[r]]
PatchModel(d) ==
  LET there == {m \in Models : d[Model(m)].st # "absent"}
  IN  {Toggled(d, m) : m \in there}
        \union {Write(Model(m), [d[Model(m)] EXCEPT !.fb = f]) :
                  m \in there, f \in Models \union {None}}
        \union {Remapped(d, m, A) :
                  m \in there, A \in (SUBSET {a \in Accounts : Exists(d, a)}) \ {{}}}

\* deleteModelRoute: the row, and its mappings by cascade.
DeleteModel(d) ==
  {[r \in {Map(m, a) : a \in Mapped(d, m)} |-> FALSE] ++ Write(Model(m), NoModel) :
     m \in {n \in Models : d[Model(n)].st # "absent"}}

\* renameModelAlias: the fallbacks that name the old alias are not rewritten.
RenameModel(d) ==
  {[r \in {Map(p[1], a) : a \in Mapped(d, p[1])} |-> FALSE]
     ++ [r \in {Map(p[2], a) : a \in Mapped(d, p[1])} |-> TRUE]
     ++ Write(Model(p[1]), NoModel) ++ Write(Model(p[2]), d[Model(p[1])]) :
     p \in {q \in Models \X Models : /\ d[Model(q[1])].st # "absent"
                                     /\ d[Model(q[2])].st = "absent"}}

\* Virtual keys: created, enabled, disabled.
EditKey(d) == {Write(Key(k), ~d[Key(k)]) : k \in Keys}

\* MCP servers: created, changed, deleted.
EditMcp(d) == {Write(Conf("mcp"), ~d[Conf("mcp")])}

\* Routing, pricing, cache, teams, organizations, webhook, proxy pool: what
\* they hold does not decide whether the rest compiles.
EditSettings(d) ==
  {Write(Conf("settings"), x) : x \in Settings \ {d[Conf("settings")]}}

\* importSnapshot: every table is emptied and filled from the export; each
\* account gets a new id and revision 1, and pooled models are left out.  MCP
\* servers are not part of an export.
Manual(b) == {m \in Models : b[Model(m)].st # "absent" /\ ~b[Model(m)].pool}
ManualMaps(b) ==
  {p \in Manual(b) \X {a \in Accounts : Exists(b, a)} : b[Map(p[1], p[2])]}

\* The rows the import writes when f gives each old account its new id.
Renewed(row) == [st |-> row.st, cred |-> IF row.cred = 0 THEN 0 ELSE 1, rev |-> 1]
Imported(d, b, f) ==
  [r \in {Acct(x) : x \in Range(f)} |-> Renewed(b[Acct(AntiFunction(f)[r[2]])])]
    ++ [r \in {Acct(a) : a \in {x \in Accounts : Exists(d, x)}} |->
          [d[r] EXCEPT !.st = "gone"]]
    ++ [r \in {Model(m) : m \in Models} |-> IF r[2] \in Manual(b) THEN b[r] ELSE NoModel]
    ++ [r \in {Map(m, a) : m \in Models, a \in Accounts} |->
          r \in {Map(p[1], f[p[2]]) : p \in ManualMaps(b)}]
    ++ [r \in {Sees(a) : a \in Accounts} |-> FALSE]
    ++ [r \in {Key(k) : k \in Keys} \union {Conf("settings")} |-> b[r]]

ImportSnapshot(d, b) ==
  LET old == {a \in Accounts : Exists(b, a)}
      fresh == {a \in Accounts : d[Acct(a)].st = "new"}
  IN  IF ManualMaps(b) = {} THEN {}
      ELSE {Imported(d, b, f) : f \in Injection(old, fresh)}

Changes(kind, d) ==
  CASE kind = "create_accounts" -> CreateAccounts(d)
    [] kind = "patch_account" -> PatchAccount(d)
    [] kind = "delete_account" -> DeleteAccount(d)
    [] kind = "delete_provider" -> DeleteProvider(d)
    [] kind = "create_models" -> CreateModel(d) \union CreateModelBatch(d)
    [] kind = "import_selection" -> ImportSelection(d)
    [] kind = "patch_model" -> PatchModel(d)
    [] kind = "delete_model" -> DeleteModel(d)
    [] kind = "rename_model" -> RenameModel(d)
    [] kind = "key" -> EditKey(d)
    [] kind = "mcp" -> EditMcp(d)
    [] kind = "settings" -> EditSettings(d)
    [] kind = "import" -> IF backup = None THEN {} ELSE ImportSnapshot(d, backup)

-----------------------------------------------------------------------------
(* Transactions. *)

Idle == [pc |-> "idle", w |-> <<>>, revs |-> <<>>, ver |-> 0, raced |-> FALSE]

Overlay(w) == w ++ db

\* A row lock another open transaction holds: on a row both write, or on an
\* account one deletes while the other maps a model to it.
Deletes(w) == {a \in Accounts : Acct(a) \in DOMAIN w /\ w[Acct(a)].st = "gone"}
Refers(w) == {a \in Accounts : \E m \in Models : Map(m, a) \in DOMAIN w /\ w[Map(m, a)]}
Blocked(w) ==
  \E o \in Operators :
    \/ DOMAIN w \cap DOMAIN op[o].w # {}
    \/ Deletes(w) \cap Refers(op[o].w) # {}
    \/ Refers(w) \cap Deletes(op[o].w) # {}

\* A request begins: it writes its rows, and the compilation that ends it
\* reads the enabled accounts.
Submit(o) ==
  /\ boot = "serving"
  /\ op[o].pc = "idle"
  /\ Len(versions) < MaxVersion
  /\ \E kind \in Edits : \E w \in Changes(kind, db) :
       /\ DOMAIN w # {}
       /\ ~Blocked(w)
       /\ op' = [op EXCEPT ![o] = [Idle EXCEPT !.pc = "reading", !.w = w,
                                               !.revs = Revisions(Overlay(w))]]
  /\ UNCHANGED <<db, versions, boot, backup, fleet>>

\* Wrong variant: the rest is read on another connection.
Compile_Outside(o) ==
  /\ op[o].pc = "reading"
  /\ Len(versions) < MaxVersion
  /\ IF Compiles(db)
     THEN /\ versions' = Append(versions,
               [status |-> "open", src |-> 0, schema |-> 2, raced |-> FALSE,
                snap |-> Snapshot(op[o].revs, db)])
          /\ op' = [op EXCEPT ![o].pc = "stored", ![o].ver = Len(versions) + 1]
     ELSE /\ op' = [op EXCEPT ![o] = Idle]
          /\ UNCHANGED versions
  /\ UNCHANGED <<db, boot, backup, fleet>>

\* storeDraft: the rest is read, checked and stored under the next number; a
\* check that fails rolls the whole request back.
Compile(o) ==
  LET d == Overlay(op[o].w)
  IN  /\ op[o].pc = "reading"
      /\ Len(versions) < MaxVersion
      /\ IF Compiles(d)
         THEN /\ versions' = Append(versions,
                   [status |-> "open", src |-> 0, schema |-> 2, raced |-> FALSE,
                    snap |-> Snapshot(op[o].revs, d)])
              /\ op' = [op EXCEPT ![o].pc = "stored", ![o].ver = Len(versions) + 1]
         ELSE /\ op' = [op EXCEPT ![o] = Idle]
              /\ UNCHANGED versions
      /\ UNCHANGED <<db, boot, backup, fleet>>

\* The transaction ends; `raced' remembers that another one was open meanwhile.
Commit(o) ==
  LET others == {p \in Operators \ {o} : op[p].pc # "idle"}
  IN  /\ op[o].pc = "stored"
      /\ db' = Overlay(op[o].w)
      /\ versions' = [versions EXCEPT ![op[o].ver].status = "draft",
                        ![op[o].ver].raced = op[o].raced \/ others # {}]
      /\ op' = [p \in Operators |-> IF p = o THEN Idle
                   ELSE [op[p] EXCEPT !.raced = p \in others]]
      /\ UNCHANGED <<boot, backup, fleet>>

\* The connection is lost before the commit: the number is never used again.
Abort(o) ==
  /\ op[o].pc = "stored"
  /\ versions' = [versions EXCEPT ![op[o].ver].status = "aborted"]
  /\ op' = [op EXCEPT ![o] = Idle]
  /\ UNCHANGED <<db, boot, backup, fleet>>

\* exportSnapshot.
Export ==
  /\ boot = "serving"
  /\ "import" \in Edits
  /\ backup' = db
  /\ UNCHANGED <<db, versions, op, boot, fleet>>

-----------------------------------------------------------------------------
(* Publishing. *)

Numbers(status) == {v \in 1..Len(versions) : versions[v].status = status}
Newest(S) == CHOOSE v \in S : \A w \in S : w <= v

\* Wrong variant: any draft may be published.
Candidates_Any == Numbers("draft")

\* The drafts newer than everything published.
Candidates ==
  {v \in Numbers("draft") : \A w \in Numbers("published") : w < v}

\* assertSchemaV2Publishable: every gateway seen lately reads envelope 2 and
\* has adopted what it was last given, and there are enough of them.
Publishable ==
  LET active == {g \in Gateways : instance[g].active}
  IN  /\ Cardinality(active) >= MinActive
      /\ \A g \in active : instance[g].env = 2 /\ lastAck[g] = "adopted"

Stored(src, revs, d) ==
  Append(versions, [status |-> "published", src |-> src, schema |-> 2,
                    raced |-> FALSE, snap |-> Snapshot(revs, d)])

\* publishLatest: the newest candidate, or the tables as they are.
Publish ==
  /\ boot = "serving"
  /\ Publishable
  /\ IF Candidates # {}
     THEN versions' = [versions EXCEPT ![Newest(Candidates)].status = "published"]
     ELSE /\ Len(versions) < MaxVersion
          /\ Compiles(db)
          /\ versions' = Stored(0, Revisions(db), db)
  /\ UNCHANGED <<db, op, boot, backup, fleet>>

\* POST config-versions/rollback: a copy of an old row as a draft, with the
\* revisions its accounts have now.
Rollback ==
  /\ boot = "serving"
  /\ Len(versions) < MaxVersion
  /\ \E v \in Numbers("draft") \union Numbers("published") :
       LET s == versions[v].snap
           now == [a \in DOMAIN s.revs |->
                     IF Exists(db, a) THEN db[Acct(a)].rev ELSE s.revs[a]]
       IN  versions' = Append(versions,
             [status |-> "draft", src |-> v, schema |-> 2, raced |-> FALSE,
              snap |-> [s EXCEPT !.revs = now]])
  /\ UNCHANGED <<db, op, boot, backup, fleet>>

-----------------------------------------------------------------------------
(* What changes without a draft. *)

\* persistAccountModels: a discovery run's answer for an account that was
\* enabled when the run began; an empty answer is an answer.
Discover(a) ==
  /\ boot = "serving"
  /\ Exists(db, a)
  /\ ~\E o \in Operators : a \in Deletes(op[o].w)
  /\ db' = [db EXCEPT ![Sees(a)] = ~@]
  /\ UNCHANGED <<versions, op, boot, backup, fleet>>

\* PUT accounts/:id/credentials by a gateway: a new secret, the next revision.
RotateCredential(a) ==
  /\ boot = "serving"
  /\ Exists(db, a)
  /\ 0 < db[Acct(a)].cred /\ db[Acct(a)].cred < MaxCred
  /\ ~\E o \in Operators : Acct(a) \in DOMAIN op[o].w
  /\ db' = [db EXCEPT ![Acct(a)].cred = @ + 1, ![Acct(a)].rev = @ + 1]
  /\ UNCHANGED <<versions, op, boot, backup, fleet>>

-----------------------------------------------------------------------------
(* Before the server starts: npm run migrate && npm run seed. *)

\* reconstruct: a row from before migration 002 survives when each account it
\* names is still there.  Its fallbacks are dropped.
Reconstructs(s) == \A a \in DOMAIN s.revs : Exists(db, a)
Reconstructed(s) ==
  [s EXCEPT !.revs = [a \in DOMAIN s.revs |-> db[Acct(a)].rev],
            !.fbs = [m \in DOMAIN s.fbs |-> None], !.mcp = FALSE]

\* sanitizeHistoricalConfigVersions.
Migrate ==
  /\ boot = "migrating"
  /\ versions' = [v \in DOMAIN versions |->
       IF versions[v].schema = 2 THEN versions[v]
       ELSE IF Reconstructs(versions[v].snap)
            THEN [versions[v] EXCEPT !.schema = 2, !.snap = Reconstructed(@)]
            ELSE [versions[v] EXCEPT !.status = "invalid"]]
  /\ boot' = "seeding"
  /\ UNCHANGED <<db, op, backup, fleet>>

SeedRows ==
  [r \in {Acct(a) : a \in SeedAccounts} |-> [st |-> "on", cred |-> 1, rev |-> 1]]
    ++ [r \in {Map(SeedModel, a) : a \in SeedAccounts} |-> TRUE]
    ++ Write(Model(SeedModel), [st |-> "on", pool |-> FALSE, fb |-> None])
    ++ Write(Key(SeedKey), TRUE)

\* seed.ts: the demo rows and their publication in a fresh database, or a
\* published version when an old database has lost its own.  Both go through
\* the gate; when it refuses, the container stops and starts over.
Seed ==
  /\ boot = "seeding"
  /\ LET fresh == \A a \in Accounts : db[Acct(a)].st = "new"
         d == IF fresh THEN Overlay(SeedRows) ELSE db
         lost == Numbers("invalid")
         src == IF lost = {} THEN 0 ELSE Newest(lost)
     IN  \/ /\ ~fresh /\ Numbers("published") # {}
            /\ UNCHANGED <<db, versions>>
         \/ /\ fresh \/ Numbers("published") = {}
            /\ Compiles(d) /\ Publishable
            /\ db' = d
            /\ versions' = Stored(src, Revisions(d), d)
  /\ boot' = "serving"
  /\ UNCHANGED <<op, backup, fleet>>

-----------------------------------------------------------------------------
(* The gateways. *)

Booted(new) == [pc |-> "beat", new |-> new, run |-> None, cur |-> None, got |-> None]

\* A gateway starts from its configuration file; a deployment may have brought
\* a binary that reads envelope 2.
Start(g) ==
  /\ gw[g].pc = "down"
  /\ \E new \in {gw[g].new, TRUE} : gw' = [gw EXCEPT ![g] = Booted(new)]
  /\ UNCHANGED <<control, instance, lastAck>>

Crash(g) ==
  /\ gw[g].pc # "down"
  /\ gw' = [gw EXCEPT ![g] = [Booted(gw[g].new) EXCEPT !.pc = "down"]]
  /\ UNCHANGED <<control, instance, lastAck>>

Seen(g) == [active |-> TRUE, env |-> IF gw[g].new THEN 2 ELSE 1]

\* adoptOnce begins with a heartbeat; one that is lost is only logged.
Heartbeat(g) ==
  /\ gw[g].pc = "beat"
  /\ gw' = [gw EXCEPT ![g].pc = "fetch"]
  /\ \/ boot = "serving" /\ instance' = [instance EXCEPT ![g] = Seen(g)]
     \/ UNCHANGED instance
  /\ UNCHANGED <<control, lastAck>>

\* No gateway has been heard of for GATEWAY_CAPABILITY_TTL_SECONDS.
Expire(g) ==
  /\ instance[g].active
  /\ instance' = [instance EXCEPT ![g].active = FALSE]
  /\ UNCHANGED <<control, gw, lastAck>>

\* Wrong variant: the oldest published version.
Answers_Oldest(g) ==
  {Identity(v, versions[v].snap, db) :
     v \in {u \in Numbers("published") : /\ \A w \in Numbers("published") : u <= w
                                         /\ Materializes(versions[u].snap, db)}}

\* What the snapshot endpoint answers: the newest published version, under the
\* envelope the gateway reads; no answer when it cannot be materialized or
\* needs envelope 2.
Answers(g) ==
  IF Numbers("published") = {} THEN {}
  ELSE LET v == Newest(Numbers("published"))
           s == versions[v].snap
       IN  IF ~Materializes(s, db) THEN {}
           ELSE IF gw[g].new THEN {Identity(v, s, db)}
           ELSE IF Codex \cap DOMAIN s.revs # {} THEN {}
           ELSE {LegacyIdentity(v, s, db)}

\* The snapshot is built and, unless it is the one acknowledged last, adopted
\* at once; one that does not build is refused.
Fetch(g) ==
  /\ boot = "serving"
  /\ gw[g].pc = "fetch"
  /\ \E id \in Answers(g) :
       gw' = [gw EXCEPT ![g] =
                IF ~Builds(versions[id.ver].snap)
                THEN [@ EXCEPT !.pc = "nack", !.got = id]
                ELSE IF id = gw[g].cur THEN [@ EXCEPT !.pc = "beat"]
                ELSE [@ EXCEPT !.pc = "ack", !.got = id, !.run = id]]
  /\ instance' = [instance EXCEPT ![g] = Seen(g)]
  /\ UNCHANGED <<control, lastAck>>

\* 404, 426, 500, or no connection: the gateway keeps what it runs, and may
\* have been registered all the same.
FetchFails(g) ==
  /\ gw[g].pc = "fetch"
  /\ gw' = [gw EXCEPT ![g].pc = "beat"]
  /\ \/ boot = "serving" /\ instance' = [instance EXCEPT ![g] = Seen(g)]
     \/ UNCHANGED instance
  /\ UNCHANGED <<control, lastAck>>

\* persistGatewayAck takes an envelope 2 acknowledgement only when it is for
\* what the version materializes to now.
Accepts(g) ==
  LET id == gw[g].got
      s == versions[id.ver].snap
  IN  \/ id.env = 1
      \/ /\ instance[g].env = 2
         /\ versions[id.ver].status = "published"
         /\ Materializes(s, db)
         /\ Identity(id.ver, s, db) = id

AckStatus(g) ==
  IF gw[g].pc = "nack" THEN "rejected"
  ELSE IF gw[g].got.env = 1 THEN "adopted1" ELSE "adopted"

\* The gateway reports; it takes the version as current only when it hears
\* that the report was accepted.
Ack(g) ==
  /\ boot = "serving"
  /\ gw[g].pc \in {"ack", "nack"}
  /\ Accepts(g)
  /\ lastAck' = [lastAck EXCEPT ![g] = AckStatus(g)]
  /\ \E heard \in BOOLEAN :
       gw' = [gw EXCEPT ![g].pc = "beat", ![g].got = None,
                        ![g].cur = IF heard /\ gw[g].pc = "ack" THEN gw[g].got ELSE @]
  /\ UNCHANGED <<control, instance>>

AckFails(g) ==
  /\ gw[g].pc \in {"ack", "nack"}
  /\ gw' = [gw EXCEPT ![g].pc = "beat", ![g].got = None]
  /\ UNCHANGED <<control, instance, lastAck>>

-----------------------------------------------------------------------------
EmptyRows ==
  [r \in Rows |-> CASE r[1] = "acct" -> [st |-> "new", cred |-> 0, rev |-> 0]
                    [] r[1] = "model" -> NoModel
                    [] r = Conf("settings") -> "plain"
                    [] OTHER -> FALSE]

\* A row of config_versions from before migration 002.
Historical(S) ==
  [status |-> "published", src |-> 0, schema |-> 1, raced |-> FALSE,
   snap |-> [revs |-> [a \in S |-> 0], routes |-> [m \in {SeedModel} |-> S],
             fbs |-> [m \in {SeedModel} |-> None], settings |-> "plain", mcp |-> FALSE]]

\* A fresh database, or an old one whose published row names the accounts it
\* has, or others too that were deleted since.  Some gateways may still run an old binary.
Init ==
  /\ \/ db = EmptyRows /\ versions = <<>>
     \/ /\ db = SeedRows ++ EmptyRows
        /\ \E S \in {SeedAccounts, Accounts} : versions = <<Historical(S)>>
  /\ op = [o \in Operators |-> Idle]
  /\ boot = "migrating"
  /\ backup = None
  /\ \E new \in [Gateways -> BOOLEAN] :
       gw = [g \in Gateways |-> Booted(new[g])]
  /\ instance = [g \in Gateways |-> [active |-> FALSE, env |-> 1]]
  /\ lastAck = [g \in Gateways |-> "none"]

Operate(o) == Submit(o) \/ Compile(o) \/ Commit(o) \/ Abort(o)

Serve(g) ==
  \/ Start(g) \/ Crash(g) \/ Heartbeat(g) \/ Expire(g)
  \/ Fetch(g) \/ FetchFails(g) \/ Ack(g) \/ AckFails(g)

Next ==
  \/ Migrate \/ Seed
  \/ \E o \in Operators : Operate(o)
  \/ Export \/ Publish \/ Rollback
  \/ (\E a \in Offering : Discover(a)) \/ (\E a \in Accounts : RotateCredential(a))
  \/ \E g \in Gateways : Serve(g)

Spec == Init /\ [][Next]_vars

\* The container is restarted until it serves, a gateway polls for ever, and
\* a connection that keeps being tried works again and again.
Fairness ==
  /\ WF_vars(Migrate) /\ WF_vars(Seed)
  /\ \A g \in Gateways :
       /\ WF_vars(Heartbeat(g)) /\ WF_vars(FetchFails(g) \/ Fetch(g))
       /\ WF_vars(Ack(g) \/ AckFails(g))
       /\ SF_vars(Fetch(g))

FairSpec == Spec /\ Fairness

-----------------------------------------------------------------------------
(* Properties. *)

Partial(S, T) == UNION {[X -> T] : X \in SUBSET S}

\* What a row can hold.
RowValues(r) ==
  CASE r[1] = "acct" -> AccountRow
    [] r[1] = "model" -> ModelRow
    [] r = Conf("settings") -> Settings
    [] OTHER -> BOOLEAN

IsWrites(w) == \A r \in DOMAIN w : r \in Rows /\ w[r] \in RowValues(r)
IsTables(d) == DOMAIN d = Rows /\ IsWrites(d)

SnapshotRow ==
  [revs : Partial(Accounts, 0..MaxCred), routes : Partial(Models, SUBSET Accounts),
   fbs : Partial(Models, Models \union {None}), settings : Settings, mcp : BOOLEAN]

Version ==
  [status : {"open", "draft", "published", "invalid", "aborted"},
   src : 0..MaxVersion, schema : {1, 2}, raced : BOOLEAN, snap : SnapshotRow]

IsTransaction(t) ==
  /\ t \in [pc : {"idle", "reading", "stored"}, w : {t.w},
            revs : Partial(Accounts, 0..MaxCred), ver : 0..MaxVersion, raced : BOOLEAN]
  /\ IsWrites(t.w)

IdentityRow ==
  [env : {1, 2}, ver : 1..MaxVersion, revs : Partial(Accounts, 0..MaxCred),
   creds : Partial(Accounts, 0..MaxCred), mcp : BOOLEAN]

Gateway ==
  [pc : {"down", "beat", "fetch", "ack", "nack"}, new : BOOLEAN,
   run : IdentityRow \union {None}, cur : IdentityRow \union {None},
   got : IdentityRow \union {None}]

\* Every table, transaction, version and gateway keeps its type.
TypeOK ==
  /\ IsTables(db) /\ (backup # None => IsTables(backup))
  /\ versions \in Seq(Version) /\ Len(versions) <= MaxVersion
  /\ DOMAIN op = Operators /\ \A o \in Operators : IsTransaction(op[o])
  /\ boot \in {"migrating", "seeding", "serving"}
  /\ gw \in [Gateways -> Gateway]
  /\ instance \in [Gateways -> [active : BOOLEAN, env : {1, 2}]]
  /\ lastAck \in [Gateways -> {"none", "adopted", "adopted1", "rejected"}]

Running(g) == IF gw[g].run = None THEN 0 ELSE gw[g].run.ver

Abstract == INSTANCE Rollout
  WITH Versions <- 1..MaxVersion,
       published <- Numbers("published"),
       running <- [g \in Gateways |-> Running(g)]

\* The tables, the gate and the polling gateways implement Rollout: a publish
\* or a rollback always ends up newer than everything published before, and no
\* gateway ever moves to an unpublished version or back to an older one.
ImplementsRollout == Abstract!Spec

\* A gateway that reads envelope 2 never goes back to an older secret of an
\* account, whatever is rolled back or republished meanwhile.
RevisionsNeverGoBack ==
  [][\A g \in Gateways :
       LET old == gw[g].run
           new == gw'[g].run
       IN  (old # None /\ new # None /\ old.env = 2 /\ new.env = 2) =>
             \A a \in DOMAIN old.revs \cap DOMAIN new.revs :
               old.revs[a] <= new.revs[a]]_vars

\* A stored version routes only to accounts it carries, and its fallbacks name
\* models it carries -- unless another transaction committed while it was
\* being compiled (the account list and the mappings are read at different
\* times), which is what `raced' remembers.
SelfContained ==
  \A v \in DOMAIN versions :
    LET s == versions[v].snap
    IN  (versions[v].schema = 2 /\ versions[v].status \in {"draft", "published"}
          /\ ~versions[v].raced /\ versions[v].src = 0) =>
          /\ \A m \in DOMAIN s.routes : /\ s.routes[m] # {}
                                        /\ s.routes[m] \subseteq DOMAIN s.revs
          /\ \A m \in DOMAIN s.fbs : s.fbs[m] \in DOMAIN s.fbs \union {None}

\* What the next publish would put in force is what the tables say: with no
\* request open, the newest draft lacks nothing that has been committed, apart
\* from what discovery and a rollback change by design, and again unless its
\* transaction overlapped another one.
NothingLost ==
  LET v == Newest(Candidates)
      s == versions[v].snap
      exact == {m \in Live(db) : ~db[Model(m)].pool}
  IN  (Candidates # {} /\ \A o \in Operators : op[o].pc = "idle") =>
        \/ versions[v].raced \/ versions[v].src # 0
        \/ /\ DOMAIN s.revs = On(db)
           /\ DOMAIN s.routes = Live(db)
           /\ \A m \in exact : s.routes[m] = Eligible(db, m)
           /\ \A m \in Live(db) : s.fbs[m] = db[Model(m)].fb
           /\ s.settings = db[Conf("settings")]

\* A gateway can be served: it is up and reads envelope 2, and the newest
\* published version builds and can be materialized.
Servable(g) ==
  /\ boot = "serving" /\ gw[g].pc # "down" /\ gw[g].new
  /\ Numbers("published") # {}
  /\ LET s == versions[Newest(Numbers("published"))].snap
     IN  Builds(s) /\ Materializes(s, db)

\* Gateways converge: one that can be served from some time on runs the newest
\* published version again and again, however often polls, acknowledgements
\* and heartbeats are lost (the poll loop of pollControlPlane and adoptOnce).
Converges ==
  \A g \in Gateways :
    <>[]Servable(g) =>
      []<>(Numbers("published") # {} /\ Running(g) = Newest(Numbers("published")))
=============================================================================
