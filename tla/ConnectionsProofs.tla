------------------------- MODULE ConnectionsProofs -------------------------
(***************************************************************************)
(* No row of connections refers to a secret that does not exist, the       *)
(* status of a connection with a secret of its own is true of it, and its  *)
(* tables can be listed, for any number of connections, secrets,           *)
(* credentials and handler threads, with connections that share a secret,  *)
(* requests that fail at any point and migrations up and down.             *)
(***************************************************************************)
EXTENDS Connections, TLAPS

\* NoDanglingRef is not inductive: a request that is past put_secret must find
\* the secret there when it inserts the row, and one that is not past it must
\* have credentials to store.
PastPutIsStored ==
    \A r \in Request :
        /\ pc[r] \in {"testing", "retesting", "saving", "updating"} =>
             secret[Ref(r)] # NoCredential
        /\ pc[r] \in {"putting", "naming", "testing", "retesting"} =>
             held[r] \in Credential
        /\ pc[r] \in {"saving", "updating"} => held[r] \in Verdict

StoredInv ==
    /\ COTypeOK
    /\ PastPutIsStored
    /\ NoDanglingRef

\* The migrations are numbered from one.
LEMMA HeadIsNat == HeadRevision \in Nat
  BY DEF HeadRevision

\* There are no rows at first, and no requests.
LEMMA StoredInit == COInit => StoredInv
  BY ConnectionsAssumption, HeadIsNat
     DEF COInit, MGInit, StoredInv, COTypeOK, PastPutIsStored, NoDanglingRef

\* What a migration leaves of the rows: all, or none.
LEMMA RowsStay ==
    ASSUME COTypeOK, MigrateUp \/ MigrateDown
    PROVE  /\ status' \in [Connection -> Verdict \cup {"absent"}]
           /\ revision' \in 0..HeadRevision
           /\ \A c \in Connection : status'[c] \in {status[c], "absent"}
           /\ \A r \in Request : pc[r] \notin {"retesting", "updating"}
           /\ UNCHANGED <<secret, accepted, pc, about, held>>
<1>1. revision' \in 0..HeadRevision
  BY HeadIsNat DEF COTypeOK, MigrateUp, MigrateDown, UpgradeHead, Downgrade
<1> QED
  BY <1>1 DEF COTypeOK, MigrateUp, MigrateDown, KeepRows, Unread

\* Secrets are written and never removed, and rows come after them.
LEMMA StoredStep == StoredInv /\ [CONext]_coVars => StoredInv'
<1> SUFFICES ASSUME StoredInv, [CONext]_coVars PROVE StoredInv'
  OBVIOUS
<1> USE ConnectionsAssumption
        DEF StoredInv, COTypeOK, PastPutIsStored, NoDanglingRef, Ref, Goto, Verdict,
            mgVars
<1>1. CASE UNCHANGED coVars
  BY <1>1 DEF coVars
<1>2. ASSUME NEW k \in Credential, Rotate(k) PROVE StoredInv'
  BY <1>2 DEF Rotate
<1>3. ASSUME NEW r \in Request, NEW c \in Connection, NEW k \in Credential,
             Submit(r, c, k)
      PROVE  StoredInv'
  BY <1>3 DEF Submit
<1>4. ASSUME NEW r \in Request, NEW c \in Connection, Retest(r, c)
      PROVE  StoredInv'
  BY <1>4 DEF Retest
<1>5. ASSUME NEW r \in Request, PutSecretValue(r) PROVE StoredInv'
  BY <1>5 DEF PutSecretValue
<1>6. ASSUME NEW r \in Request, CreateSecret(r) PROVE StoredInv'
  BY <1>6 DEF CreateSecret
<1>7. ASSUME NEW r \in Request, CreateClashes(r) \/ RequestFails(r) \/ Rejected(r)
      PROVE  StoredInv'
  BY <1>7 DEF CreateClashes, RequestFails, Rejected
<1>8. ASSUME NEW r \in Request, RunTest(r) PROVE StoredInv'
  BY <1>8 DEF RunTest, Tested
<1>9. ASSUME NEW r \in Request, Save(r) PROVE StoredInv'
  BY <1>9 DEF Save
<1>10. CASE MigrateUp \/ MigrateDown
  BY <1>10, RowsStay
<1> QED
  BY <1>1, <1>2, <1>3, <1>4, <1>5, <1>6, <1>7, <1>8, <1>9, <1>10 DEF CONext

\* Secrets, rows, requests and the revision keep their types.
THEOREM ConnectionTypes == COSpec => []COTypeOK
<1>1. StoredInv => COTypeOK
  BY DEF StoredInv
<1> QED
  BY <1>1, StoredInit, StoredStep, PTL DEF COSpec

\* A row never refers to a secret that does not exist: get_secret finds what it
\* is asked for, whatever failed between put_secret and the commit.
THEOREM RowsHaveSecrets == COSpec => []NoDanglingRef
<1>1. StoredInv => NoDanglingRef
  BY DEF StoredInv
<1> QED
  BY <1>1, StoredInit, StoredStep, PTL DEF COSpec

-----------------------------------------------------------------------------
\* The status. It follows from what each request holds while it is under way:
\* the stored credentials until the test, the truth about them after it. That
\* nobody writes the secret meanwhile rests on who may be under way at all: a
\* request that creates a connection is alone with it, since only a row can be
\* tested again.

Alone ==
    \A r \in Request :
        /\ pc[r] \in {"putting", "naming", "testing", "saving"} =>
             /\ status[about[r]] = "absent"
             /\ \A q \in Request \ {r} : pc[q] # "idle" => about[q] # about[r]
        /\ pc[r] \in {"retesting", "updating"} => status[about[r]] # "absent"

HoldsTruth ==
    \A r \in Request :
        /\ pc[r] \in {"testing", "retesting"} /\ OwnsSecret(about[r]) =>
             held[r] = secret[RefOf[about[r]]]
        /\ pc[r] \in {"saving", "updating"} /\ Steady(about[r]) =>
             (held[r] = "active" <=> Works(about[r], secret[RefOf[about[r]]]))

\* What is listed. The source of whoever has passed the registry is known, and who
\* is active has credentials that make a configuration.
KnownInv ==
    /\ \A r \in Request :
          /\ pc[r] \in {"saving", "updating", "retesting"} =>
               SourceOf[about[r]] \in DOMAIN Sources
          /\ pc[r] \in {"saving", "updating"} /\ OwnsSecret(about[r])
                /\ held[r] = "active" =>
               Built(about[r], secret[RefOf[about[r]]]) = "connector"
    /\ \A c \in Connection : status[c] # "absent" =>
          /\ SourceOf[c] \in DOMAIN Sources
          /\ OwnsSecret(c) /\ status[c] = "active" =>
               Built(c, secret[RefOf[c]]) = "connector"

TruthInv ==
    /\ StoredInv
    /\ Alone
    /\ HoldsTruth
    /\ StatusTellsOfSecret
    /\ KnownInv

\* The part of TruthInv that is not about secrets being there.
Told == Alone /\ HoldsTruth /\ StatusTellsOfSecret /\ KnownInv

\* There are no rows at first, and no requests.
LEMMA TruthInit == COInit => TruthInv
  BY StoredInit
     DEF COInit, TruthInv, Alone, HoldsTruth, StatusTellsOfSecret, KnownInv

\* An unknown source is the only one that Build does not find.
LEMMA FoundIsKnown ==
    ASSUME NEW c, NEW k
    PROVE  /\ Built(c, k) # "KeyError" <=> SourceOf[c] \in DOMAIN Sources
           /\ Built(c, k) = "connector" => SourceOf[c] \in DOMAIN Sources
  BY DEF Built, Build

\* A request that writes a secret is alone with its connection, so no test holds
\* and no row tells of what it replaces.
LEMMA TruthStep == TruthInv /\ [CONext]_coVars => TruthInv'
<1> SUFFICES ASSUME TruthInv, [CONext]_coVars PROVE TruthInv'
  OBVIOUS
<1>0. StoredInv'
  BY StoredStep DEF TruthInv
<1> SUFFICES Told'
  BY <1>0 DEF TruthInv, Told
<1> USE ConnectionsAssumption
        DEF TruthInv, Told, Alone, HoldsTruth, StatusTellsOfSecret, KnownInv, Steady,
            Works, OwnsSecret, StoredInv, COTypeOK, PastPutIsStored, NoDanglingRef, Ref,
            Goto, Verdict, mgVars
<1>1. CASE UNCHANGED coVars
  BY <1>1 DEF coVars, Built
<1>2. ASSUME NEW k \in Credential, Rotate(k)
      PROVE  Told'
  BY <1>2 DEF Rotate
<1>3. ASSUME NEW r \in Request, NEW c \in Connection, NEW k \in Credential,
             Submit(r, c, k)
      PROVE  Told'
  BY <1>3 DEF Submit, Unused
<1>4. ASSUME NEW r \in Request, NEW c \in Connection, Retest(r, c)
      PROVE  Told'
  BY <1>4 DEF Retest
<1>5. ASSUME NEW r \in Request, PutSecretValue(r) \/ CreateSecret(r)
      PROVE  Told'
  <2> USE <1>5 DEF PutSecretValue, CreateSecret
  <2>1. Alone'
    OBVIOUS
  <2>2. ASSUME NEW c \in Connection, OwnsSecret(c), c # about[r]
        PROVE  secret'[RefOf[c]] = secret[RefOf[c]]
    BY <2>2
  <2>3. HoldsTruth'
    BY <2>1, <2>2
  <2>4. StatusTellsOfSecret'
    BY <2>1, <2>2
  <2>5. /\ UNCHANGED <<status, about, held>>
        /\ pc'[r] \in {"naming", "testing"}
        /\ \A q \in Request \ {r} : pc'[q] = pc[q]
    OBVIOUS
  <2>6. ASSUME NEW q \in Request, pc'[q] \in {"saving", "updating", "retesting"}
        PROVE  /\ SourceOf[about'[q]] \in DOMAIN Sources
               /\ pc'[q] # "retesting" /\ OwnsSecret(about'[q]) /\ held'[q] = "active" =>
                    Built(about'[q], secret'[RefOf[about'[q]]]) = "connector"
    <3>1. q # r /\ pc[q] = pc'[q]
      BY <2>5, <2>6
    <3>2. about[q] # about[r]
      BY <2>5, <2>6, <3>1
    <3>3. OwnsSecret(about[q]) => secret'[RefOf[about[q]]] = secret[RefOf[about[q]]]
      BY <2>2, <3>2
    <3> QED
      BY <2>5, <2>6, <3>1, <3>3
  <2>7. ASSUME NEW c \in Connection, status'[c] # "absent"
        PROVE  /\ SourceOf[c] \in DOMAIN Sources
               /\ OwnsSecret(c) /\ status'[c] = "active" =>
                    Built(c, secret'[RefOf[c]]) = "connector"
    <3>1. c # about[r]
      BY <2>5, <2>7
    <3>2. OwnsSecret(c) => secret'[RefOf[c]] = secret[RefOf[c]]
      BY <2>2, <3>1
    <3> QED
      BY <2>5, <2>7, <3>2
  <2>8. KnownInv'
    BY <2>6, <2>7
  <2> QED
    BY <2>1, <2>3, <2>4, <2>8
<1>6. ASSUME NEW r \in Request, CreateClashes(r) \/ RequestFails(r) \/ Rejected(r)
      PROVE  Told'
  <2>1. /\ pc' = [pc EXCEPT ![r] = "idle"]
        /\ held' = [held EXCEPT ![r] = NoCredential]
        /\ UNCHANGED <<secret, accepted, status, about>>
    BY <1>6 DEF CreateClashes, RequestFails, Rejected
  <2>2. Alone'
    BY <2>1
  <2>3. HoldsTruth'
    BY <2>1
  <2>4. StatusTellsOfSecret' /\ KnownInv'
    BY <2>1
  <2> QED
    BY <2>2, <2>3, <2>4
<1>7. ASSUME NEW r \in Request, RunTest(r)
      PROVE  Told'
  BY <1>7, FoundIsKnown DEF RunTest, Tested
<1>8. ASSUME NEW r \in Request, Save(r)
      PROVE  Told'
  BY <1>8 DEF Save
<1>9. CASE MigrateUp \/ MigrateDown
  <2>1. /\ \A c \in Connection : status'[c] \in {status[c], "absent"}
        /\ \A r \in Request : pc[r] \notin {"retesting", "updating"}
        /\ UNCHANGED <<secret, accepted, pc, about, held>>
    BY <1>9, RowsStay
  <2>2. Alone'
    BY <2>1
  <2>3. HoldsTruth'
    BY <2>1
  <2>4. StatusTellsOfSecret' /\ KnownInv'
    BY <2>1
  <2> QED
    BY <2>2, <2>3, <2>4
<1> QED
  BY <1>1, <1>2, <1>3, <1>4, <1>5, <1>6, <1>7, <1>8, <1>9 DEF CONext

\* The status of a connection with a secret of its own tells whether its
\* credentials work, as long as the source does not change its mind on them.
THEOREM StatusTellsTheTruth == COSpec => []StatusTellsOfSecret
<1>1. TruthInv => StatusTellsOfSecret
  BY DEF TruthInv
<1> QED
  BY <1>1, TruthInit, TruthStep, PTL DEF COSpec

\* The tables of the registry agree: credentials that make the configuration of
\* the representative connector make that of every connector of the source.
LEMMA TablesAgree ==
    ASSUME NEW source, NEW fields, source \in DOMAIN Sources
    PROVE  /\ GetSchemas(source, fields) # "KeyError"
           /\ Build(source, fields) = "connector" =>
                GetSchemas(source, fields) = "tables"
<1>1. CASE source = "razorpay"
  BY <1>1 DEF GetSchemas, Build, Sources, SourceConnectors, Connectors
<1>2. CASE source = "kapture"
  BY <1>2 DEF GetSchemas, Build, Sources, SourceConnectors, Connectors
<1> QED
  BY <1>1, <1>2 DEF Sources

\* Whoever saved a connection can list its tables, for every source, environment
\* and set of credentials.
THEOREM ConnectionsAreListed == COSpec => []TestedIsListed
<1>1. TruthInv => TestedIsListed
  BY TablesAgree DEF TruthInv, KnownInv, TestedIsListed, ListSchema, Built
<1> QED
  BY <1>1, TruthInit, TruthStep, PTL DEF COSpec

-----------------------------------------------------------------------------
\* Migrations. MigrationsApply and HeadIsModels are about the tables that some
\* sequence of upgrades and downgrades has left. There is one database for each
\* revision: whatever way led to it, the tables are TablesAt(revision).

With(columns, c, kind) ==
    [x \in DOMAIN columns \cup {c} |-> IF x = c THEN kind ELSE columns[x]]

Without(columns, c) == [x \in DOMAIN columns \ {c} |-> columns[x]]

IsRow(columns) == columns = [x \in DOMAIN columns |-> columns[x]]

\* All tables, of which connections and pipelines have some columns.
Four(ofConnections, ofPipelines) ==
    [agents |-> [columns |-> CreateAgents.columns, refs |-> {}],
     connections |-> [columns |-> ofConnections, refs |-> {}],
     pipelines |-> [columns |-> ofPipelines, refs |-> {"agents", "connections"}],
     job_runs |-> [columns |-> CreateJobRuns.columns, refs |-> {"pipelines", "agents"}]]

Stateful == With(CreatePipelines.columns, "state", "null")
Testable == With(CreateConnections.columns, "last_tested_at", "null")
Named == With(Testable, "name", "required")

TablesAt(n) ==
    CASE n = 0 -> [t \in {} |-> {}]
      [] n = 1 -> Four(CreateConnections.columns, CreatePipelines.columns)
      [] n = 2 -> Four(CreateConnections.columns, Stateful)
      [] n = 3 -> Four(Testable, Stateful)
      [] n = 4 -> Four(Named, Stateful)

\* What the statements do to a database that they are meant for.
LEMMA AddDoes ==
    ASSUME NEW db, db # Broken, NEW t \in DOMAIN db,
           NEW c, c \notin DOMAIN db[t].columns,
           NEW kind, kind # "required", NEW occupied
    PROVE  Execute(db, AddColumn(t, c, kind), occupied)
             = [db EXCEPT ![t].columns = With(@, c, kind)]
<1> DEFINE s == AddColumn(t, c, kind)
<1>1. s.ddl = "add" /\ s.table = t /\ s.column = c /\ s.kind = kind
  BY DEF AddColumn
<1> HIDE DEF s
<1>2. Executable(db, s, occupied)
  BY <1>1 DEF Executable
<1>3. Effect(db, s) = [db EXCEPT ![t].columns = With(@, c, kind)]
  BY <1>1 DEF Effect, With
<1> QED
  BY <1>2, <1>3 DEF Execute, s

LEMMA RemoveDoes ==
    ASSUME NEW db, db # Broken, NEW t \in DOMAIN db,
           NEW c \in DOMAIN db[t].columns, NEW occupied
    PROVE  Execute(db, DropColumn(t, c), occupied)
             = [db EXCEPT ![t].columns = Without(@, c)]
<1> DEFINE s == DropColumn(t, c)
<1>1. s.ddl = "remove" /\ s.table = t /\ s.column = c
  BY DEF DropColumn
<1> HIDE DEF s
<1>2. Executable(db, s, occupied)
  BY <1>1 DEF Executable
<1>3. Effect(db, s) = [db EXCEPT ![t].columns = Without(@, c)]
  BY <1>1 DEF Effect, Without
<1> QED
  BY <1>2, <1>3 DEF Execute, s

LEMMA RequireDoes ==
    ASSUME NEW db, db # Broken, NEW t \in DOMAIN db,
           NEW c \in DOMAIN db[t].columns, NEW occupied
    PROVE  Execute(db, DropDefault(t, c), occupied)
             = [db EXCEPT ![t].columns[c] = "required"]
<1> DEFINE s == DropDefault(t, c)
<1>1. s.ddl = "required" /\ s.table = t /\ s.column = c
  BY DEF DropDefault
<1> HIDE DEF s
<1>2. Executable(db, s, occupied)
  BY <1>1 DEF Executable
<1>3. Effect(db, s) = [db EXCEPT ![t].columns[c] = "required"]
  BY <1>1 DEF Effect
<1> QED
  BY <1>2, <1>3 DEF Execute, s

WithTable(db, t, new) ==
    [u \in DOMAIN db \cup {t} |-> IF u = t THEN new ELSE db[u]]

LEMMA CreateDoes ==
    ASSUME NEW db, db # Broken, NEW t, t \notin DOMAIN db,
           NEW columns, NEW refs \in SUBSET DOMAIN db, NEW occupied,
           NEW new, new = [columns |-> columns, refs |-> refs]
    PROVE  Execute(db, CreateTable(t, columns, refs), occupied)
             = WithTable(db, t, new)
<1> DEFINE s == CreateTable(t, columns, refs)
<1>1. s.ddl = "create" /\ s.table = t /\ s.columns = columns /\ s.refs = refs
  BY DEF CreateTable
<1> HIDE DEF s
<1>2. Executable(db, s, occupied)
  BY <1>1 DEF Executable
<1>3. Effect(db, s) = WithTable(db, t, new)
  BY <1>1 DEF Effect, WithTable
<1> QED
  BY <1>2, <1>3 DEF Execute, s

LEMMA DropDoes ==
    ASSUME NEW db, db # Broken, NEW t \in DOMAIN db,
           \A u \in DOMAIN db \ {t} : t \notin db[u].refs, NEW occupied
    PROVE  Execute(db, DropTable(t), occupied) = [u \in DOMAIN db \ {t} |-> db[u]]
<1> DEFINE s == DropTable(t)
<1>1. s.ddl = "drop" /\ s.table = t
  BY DEF DropTable
<1> HIDE DEF s
<1>2. Executable(db, s, occupied)
  BY <1>1 DEF Executable
<1>3. Effect(db, s) = [u \in DOMAIN db \ {t} |-> db[u]]
  BY <1>1 DEF Effect
<1> QED
  BY <1>2, <1>3 DEF Execute, s

LEMMA SchemaDoes ==
    ASSUME NEW db, db # Broken, DOMAIN db = {}, NEW occupied
    PROVE  Execute(db, DropSchema, occupied) = db
<1> DEFINE s == DropSchema
<1>1. s.ddl = "schema"
  BY DEF DropSchema
<1> HIDE DEF s
<1>2. Executable(db, s, occupied)
  BY <1>1 DEF Executable
<1>3. Effect(db, s) = db
  BY <1>1 DEF Effect
<1> QED
  BY <1>2, <1>3 DEF Execute, s

\* The same for a database with all tables.
LEMMA FourTables ==
    ASSUME NEW cs, NEW ps
    PROVE  /\ DOMAIN Four(cs, ps) = {"agents", "connections", "pipelines", "job_runs"}
           /\ Four(cs, ps) # Broken
           /\ Four(cs, ps)["connections"].columns = cs
           /\ Four(cs, ps)["pipelines"].columns = ps
           /\ \A new : [Four(cs, ps) EXCEPT !["connections"].columns = new]
                         = Four(new, ps)
           /\ \A new : [Four(cs, ps) EXCEPT !["pipelines"].columns = new]
                         = Four(cs, new)
<1>1. DOMAIN Four(cs, ps) = {"agents", "connections", "pipelines", "job_runs"}
  BY DEF Four
<1>2. Four(cs, ps) # Broken
  BY <1>1 DEF Broken
<1>3. /\ Four(cs, ps)["connections"].columns = cs
      /\ Four(cs, ps)["pipelines"].columns = ps
  BY DEF Four
<1>4. ASSUME NEW new
      PROVE  [Four(cs, ps) EXCEPT !["connections"].columns = new] = Four(new, ps)
  BY DEF Four
<1>5. ASSUME NEW new
      PROVE  [Four(cs, ps) EXCEPT !["pipelines"].columns = new] = Four(cs, new)
  BY DEF Four
<1> QED
  BY <1>1, <1>2, <1>3, <1>4, <1>5

LEMMA AddsToConnections ==
    ASSUME NEW cs, NEW ps, NEW c, NEW kind, NEW occupied,
           c \notin DOMAIN cs, kind # "required"
    PROVE  Execute(Four(cs, ps), AddColumn("connections", c, kind), occupied)
             = Four(With(cs, c, kind), ps)
  BY AddDoes, FourTables

LEMMA AddsToPipelines ==
    ASSUME NEW cs, NEW ps, NEW c, NEW kind, NEW occupied,
           c \notin DOMAIN ps, kind # "required"
    PROVE  Execute(Four(cs, ps), AddColumn("pipelines", c, kind), occupied)
             = Four(cs, With(ps, c, kind))
  BY AddDoes, FourTables

LEMMA RemovesFromConnections ==
    ASSUME NEW cs, NEW ps, NEW c \in DOMAIN cs, NEW occupied
    PROVE  Execute(Four(cs, ps), DropColumn("connections", c), occupied)
             = Four(Without(cs, c), ps)
  BY RemoveDoes, FourTables

LEMMA RemovesFromPipelines ==
    ASSUME NEW cs, NEW ps, NEW c \in DOMAIN ps, NEW occupied
    PROVE  Execute(Four(cs, ps), DropColumn("pipelines", c), occupied)
             = Four(cs, Without(ps, c))
  BY RemoveDoes, FourTables

LEMMA RequiresName ==
    ASSUME NEW cs, NEW ps, NEW occupied, "name" \notin DOMAIN cs
    PROVE  Execute(Four(With(cs, "name", "filled"), ps),
                   DropDefault("connections", "name"), occupied)
             = Four(With(cs, "name", "required"), ps)
<1> DEFINE filled == With(cs, "name", "filled")
<1>1. "name" \in DOMAIN filled
      /\ [filled EXCEPT !["name"] = "required"] = With(cs, "name", "required")
  BY DEF With
<1> HIDE DEF filled
<1>2. Execute(Four(filled, ps), DropDefault("connections", "name"), occupied)
        = [Four(filled, ps) EXCEPT !["connections"].columns["name"] = "required"]
  BY <1>1, RequireDoes, FourTables
<1>3. [Four(filled, ps) EXCEPT !["connections"].columns["name"] = "required"]
        = Four([filled EXCEPT !["name"] = "required"], ps)
  BY FourTables
<1> QED
  BY <1>1, <1>2, <1>3 DEF filled

\* A column that was added can be removed, and nothing is left of it.
LEMMA Removed ==
    ASSUME NEW cs, IsRow(cs), NEW c, c \notin DOMAIN cs, NEW kind
    PROVE  /\ Without(With(cs, c, kind), c) = cs
           /\ c \in DOMAIN With(cs, c, kind)
  BY DEF With, Without, IsRow

\* The columns that the later scripts add are not there before.
LEMMA NewColumns ==
    /\ IsRow(CreateConnections.columns) /\ IsRow(CreatePipelines.columns)
    /\ IsRow(Testable)
    /\ "state" \notin DOMAIN CreatePipelines.columns
    /\ "last_tested_at" \notin DOMAIN CreateConnections.columns
    /\ "name" \notin DOMAIN Testable
  BY DEF CreateConnections, CreatePipelines, CreateTable, Testable, With, IsRow

\* The first script makes the tables one by one, and its downgrade drops them in
\* the other order, so that no key refers to a table that is not there.
Tables == {"agents", "connections", "pipelines", "job_runs"}

Some(T) == [t \in T |-> TablesAt(1)[t]]

LEMMA SomeTables ==
    /\ Some({}) = TablesAt(0)
    /\ Some(Tables) = TablesAt(1)
    /\ \A T \in SUBSET Tables : Some(T) # Broken /\ DOMAIN Some(T) = T
<1>1. Some({}) = TablesAt(0)
  BY DEF Some, TablesAt
<1>2. TablesAt(1) = Four(CreateConnections.columns, CreatePipelines.columns)
  BY DEF TablesAt
<1>3. Some(Tables) = TablesAt(1)
  <2>1. TablesAt(1) = [t \in Tables |-> TablesAt(1)[t]]
    BY <1>2 DEF Four, Tables
  <2> QED
    BY <2>1 DEF Some
<1>4. ASSUME NEW T \in SUBSET Tables PROVE Some(T) # Broken /\ DOMAIN Some(T) = T
  <2>1. DOMAIN Some(T) = T
    BY DEF Some
  <2>2. "error" \notin T
    BY DEF Tables
  <2> QED
    BY <2>1, <2>2 DEF Broken
<1> QED
  BY <1>1, <1>3, <1>4

LEMMA CreatesNext ==
    ASSUME NEW T \in SUBSET Tables, NEW t \in Tables \ T, NEW occupied,
           TablesAt(1)[t].refs \subseteq T
    PROVE  Execute(Some(T),
                   CreateTable(t, TablesAt(1)[t].columns, TablesAt(1)[t].refs),
                   occupied)
             = Some(T \cup {t})
<1> DEFINE columns == TablesAt(1)[t].columns
           refs == TablesAt(1)[t].refs
           new == TablesAt(1)[t]
           db == Some(T)
<1>1. db # Broken /\ t \notin DOMAIN db /\ DOMAIN db = T /\ refs \in SUBSET DOMAIN db
  BY SomeTables
<1>2. new = [columns |-> columns, refs |-> refs]
  BY DEF TablesAt, Four, Tables
<1>3. WithTable(db, t, new) = Some(T \cup {t})
  BY DEF Some, WithTable
<1> HIDE DEF columns, refs, new, db
<1>4. Execute(db, CreateTable(t, columns, refs), occupied)
        = WithTable(db, t, new)
  BY <1>1, <1>2, CreateDoes
<1> QED
  BY <1>3, <1>4 DEF columns, refs, db

LEMMA DropsLast ==
    ASSUME NEW T \in SUBSET Tables, NEW t \in T, NEW occupied,
           \A u \in T \ {t} : t \notin TablesAt(1)[u].refs
    PROVE  Execute(Some(T), DropTable(t), occupied) = Some(T \ {t})
<1> DEFINE db == Some(T)
<1>1. /\ db # Broken /\ DOMAIN db = T
      /\ \A u \in DOMAIN db \ {t} : t \notin db[u].refs
  BY SomeTables DEF Some
<1>2. [u \in T \ {t} |-> db[u]] = Some(T \ {t})
  BY DEF Some
<1> HIDE DEF db
<1>3. Execute(db, DropTable(t), occupied) = [u \in DOMAIN db \ {t} |-> db[u]]
  BY <1>1, DropDoes
<1> QED
  BY <1>1, <1>2, <1>3 DEF db

\* What the tables of the first revision are.
LEMMA FirstTables ==
    /\ CreateAgents =
         CreateTable("agents", TablesAt(1)["agents"].columns,
                     TablesAt(1)["agents"].refs)
    /\ CreateConnections =
         CreateTable("connections", TablesAt(1)["connections"].columns,
                     TablesAt(1)["connections"].refs)
    /\ CreatePipelines =
         CreateTable("pipelines", TablesAt(1)["pipelines"].columns,
                     TablesAt(1)["pipelines"].refs)
    /\ CreateJobRuns =
         CreateTable("job_runs", TablesAt(1)["job_runs"].columns,
                     TablesAt(1)["job_runs"].refs)
    /\ TablesAt(1)["agents"].refs = {}
    /\ TablesAt(1)["connections"].refs = {}
    /\ TablesAt(1)["pipelines"].refs = {"agents", "connections"}
    /\ TablesAt(1)["job_runs"].refs = {"pipelines", "agents"}
<1>1. CreateAgents = CreateTable("agents", CreateAgents.columns, {})
  BY DEF CreateAgents, CreateTable
<1>2. CreateConnections = CreateTable("connections", CreateConnections.columns, {})
  BY DEF CreateConnections, CreateTable
<1>3. CreatePipelines = CreateTable("pipelines", CreatePipelines.columns,
                                    {"agents", "connections"})
  BY DEF CreatePipelines, CreateTable
<1>4. CreateJobRuns = CreateTable("job_runs", CreateJobRuns.columns,
                                  {"pipelines", "agents"})
  BY DEF CreateJobRuns, CreateTable
<1> DEFINE four == Four(CreateConnections.columns, CreatePipelines.columns)
<1>0. TablesAt(1) = four
  BY DEF TablesAt
<1>5. four["agents"] = [columns |-> CreateAgents.columns, refs |-> {}]
  BY DEF Four
<1>6. four["connections"]
        = [columns |-> CreateConnections.columns, refs |-> {}]
  BY DEF Four
<1>7. four["pipelines"]
        = [columns |-> CreatePipelines.columns, refs |-> {"agents", "connections"}]
  BY DEF Four
<1>8. four["job_runs"]
        = [columns |-> CreateJobRuns.columns, refs |-> {"pipelines", "agents"}]
  BY DEF Four
<1>9. /\ four["agents"].columns = CreateAgents.columns
      /\ four["agents"].refs = {}
      /\ four["connections"].columns = CreateConnections.columns
      /\ four["connections"].refs = {}
  BY <1>5, <1>6
<1>10. /\ four["pipelines"].columns = CreatePipelines.columns
       /\ four["pipelines"].refs = {"agents", "connections"}
       /\ four["job_runs"].columns = CreateJobRuns.columns
       /\ four["job_runs"].refs = {"pipelines", "agents"}
  BY <1>7, <1>8
<1> HIDE DEF four
<1> QED
  BY <1>0, <1>1, <1>2, <1>3, <1>4, <1>9, <1>10

LEMMA InitCreatesAll ==
    ASSUME NEW occupied PROVE Init0001(TablesAt(0), occupied) = TablesAt(1)
<1>1. Execute(Some({}), CreateAgents, occupied) = Some({"agents"})
  BY CreatesNext, FirstTables DEF Tables
<1>2. Execute(Some({"agents"}), CreateConnections, occupied)
        = Some({"agents", "connections"})
  <2>1. {"agents"} \cup {"connections"} = {"agents", "connections"}
    OBVIOUS
  <2> QED
    BY <2>1, CreatesNext, FirstTables DEF Tables
<1>3. Execute(Some({"agents", "connections"}), CreatePipelines, occupied)
        = Some({"agents", "connections", "pipelines"})
  <2>1. {"agents", "connections"} \cup {"pipelines"}
          = {"agents", "connections", "pipelines"}
    OBVIOUS
  <2> QED
    BY <2>1, CreatesNext, FirstTables DEF Tables
<1>4. Execute(Some({"agents", "connections", "pipelines"}), CreateJobRuns, occupied)
        = Some(Tables)
  <2>1. {"agents", "connections", "pipelines"} \cup {"job_runs"} = Tables
    BY DEF Tables
  <2> QED
    BY <2>1, CreatesNext, FirstTables DEF Tables
<1> QED
  BY <1>1, <1>2, <1>3, <1>4, SomeTables DEF Init0001

LEMMA DropAllDrops ==
    ASSUME NEW occupied PROVE DropAll(TablesAt(1), occupied) = TablesAt(0)
<1>1. Execute(Some(Tables), DropTable("job_runs"), occupied)
        = Some({"agents", "connections", "pipelines"})
  <2>1. Tables \ {"job_runs"} = {"agents", "connections", "pipelines"}
    BY DEF Tables
  <2> QED
    BY <2>1, DropsLast, FirstTables DEF Tables
<1>2. Execute(Some({"agents", "connections", "pipelines"}),
              DropTable("pipelines"), occupied)
        = Some({"agents", "connections"})
  <2>1. {"agents", "connections", "pipelines"} \ {"pipelines"}
          = {"agents", "connections"}
    OBVIOUS
  <2> QED
    BY <2>1, DropsLast, FirstTables DEF Tables
<1>3. Execute(Some({"agents", "connections"}), DropTable("connections"), occupied)
        = Some({"agents"})
  <2>1. {"agents", "connections"} \ {"connections"} = {"agents"}
    OBVIOUS
  <2> QED
    BY <2>1, DropsLast, FirstTables DEF Tables
<1>4. Execute(Some({"agents"}), DropTable("agents"), occupied) = Some({})
  <2>1. {"agents"} \ {"agents"} = {}
    OBVIOUS
  <2> QED
    BY <2>1, DropsLast DEF Tables
<1>5. Execute(Some({}), DropSchema, occupied) = Some({})
  BY SchemaDoes, SomeTables
<1> QED
  BY <1>1, <1>2, <1>3, <1>4, <1>5, SomeTables DEF DropAll

\* Each script takes the tables of one revision to those of the next, and back,
\* whichever tables have rows.
LEMMA UpgradesStep ==
    ASSUME NEW n \in 0..3, NEW occupied
    PROVE  Upgrade(n + 1, TablesAt(n), occupied) = TablesAt(n + 1)
<1>1. Upgrade(1, TablesAt(0), occupied) = TablesAt(1)
  BY InitCreatesAll DEF Upgrade
<1>2. Upgrade(2, TablesAt(1), occupied) = TablesAt(2)
  BY AddsToPipelines, NewColumns DEF Upgrade, State0002, TablesAt, Stateful
<1>3. Upgrade(3, TablesAt(2), occupied) = TablesAt(3)
  BY AddsToConnections, NewColumns DEF Upgrade, Tested0003, TablesAt, Testable
<1>4. Upgrade(4, TablesAt(3), occupied) = TablesAt(4)
  <2>1. Execute(TablesAt(3), AddColumn("connections", "name", "filled"), occupied)
          = Four(With(Testable, "name", "filled"), Stateful)
    BY AddsToConnections, NewColumns DEF TablesAt
  <2> QED
    BY <2>1, RequiresName, NewColumns DEF Upgrade, Name0004, TablesAt, Named
<1> QED
  BY <1>1, <1>2, <1>3, <1>4

LEMMA UndoesStep ==
    ASSUME NEW n \in 1..4, NEW occupied
    PROVE  Undo(n, TablesAt(n), occupied) = TablesAt(n - 1)
<1>1. Undo(1, TablesAt(1), occupied) = TablesAt(0)
  BY DropAllDrops DEF Undo
<1>2. Undo(2, TablesAt(2), occupied) = TablesAt(1)
  BY RemovesFromPipelines, Removed, NewColumns DEF Undo, TablesAt, Stateful
<1>3. Undo(3, TablesAt(3), occupied) = TablesAt(2)
  BY RemovesFromConnections, Removed, NewColumns DEF Undo, TablesAt, Testable
<1>4. Undo(4, TablesAt(4), occupied) = TablesAt(3)
  BY RemovesFromConnections, Removed, NewColumns DEF Undo, TablesAt, Named
<1> QED
  BY <1>1, <1>2, <1>3, <1>4

LEMMA NeverBroken == ASSUME NEW n \in 0..4 PROVE TablesAt(n) # Broken
<1>1. TablesAt(0) # Broken
  BY SomeTables
<1>2. CASE n # 0
  BY <1>2, FourTables DEF TablesAt
<1> QED
  BY <1>1, <1>2

MigratedInv ==
    /\ revision \in 0..HeadRevision
    /\ tables = TablesAt(revision)

\* The two scripts that can run in a database of the invariant.
LEMMA ScriptsRun ==
    ASSUME MigratedInv, NEW occupied
    PROVE  /\ revision < HeadRevision => UpgradeScript(occupied) = TablesAt(HeadRevision)
           /\ revision > 0 => DowngradeScript(occupied) = TablesAt(revision - 1)
<1> USE DEF MigratedInv, HeadRevision
<1> DEFINE Run(n, db) == IF n > revision THEN Upgrade(n, db, occupied) ELSE db
           After(n) == IF n > revision THEN TablesAt(n) ELSE tables
<1>1. ASSUME NEW n \in 0..3 PROVE Run(n + 1, After(n)) = After(n + 1)
  <2>1. CASE n + 1 > revision
    <3>1. After(n) = TablesAt(n)
      BY <2>1
    <3> QED
      BY <2>1, <3>1, UpgradesStep
  <2>2. CASE ~(n + 1 > revision)
    BY <2>2
  <2> QED
    BY <2>1, <2>2
<1>2. UpgradeScript(occupied) = Run(4, Run(3, Run(2, Run(1, After(0)))))
  BY DEF UpgradeScript
<1> HIDE DEF Run, After
<1>3. UpgradeScript(occupied) = After(4)
  BY <1>1, <1>2
<1>4. revision < HeadRevision => UpgradeScript(occupied) = TablesAt(HeadRevision)
  BY <1>3 DEF After
<1>5. revision > 0 => DowngradeScript(occupied) = TablesAt(revision - 1)
  BY UndoesStep DEF DowngradeScript
<1> QED
  BY <1>4, <1>5

LEMMA MigratedStep == MigratedInv /\ [CONext]_coVars => MigratedInv'
<1> SUFFICES ASSUME MigratedInv, [CONext]_coVars PROVE MigratedInv'
  OBVIOUS
<1>1. CASE UNCHANGED mgVars
  BY <1>1 DEF mgVars, MigratedInv
<1>2. CASE MigrateUp
  <2>1. revision < HeadRevision /\ revision' = HeadRevision
        /\ tables' = UpgradeScript(Occupied)
    BY <1>2 DEF MigrateUp, UpgradeHead
  <2> QED
    BY <2>1, ScriptsRun, HeadIsNat DEF MigratedInv
<1>3. CASE MigrateDown
  <2>1. revision > 0 /\ revision' = revision - 1
        /\ tables' = DowngradeScript(Occupied)
    BY <1>3 DEF MigrateDown, Downgrade
  <2> QED
    BY <2>1, ScriptsRun DEF MigratedInv, HeadRevision
<1> QED
  BY <1>1, <1>2, <1>3
     DEF CONext, Rotate, Submit, Retest, PutSecretValue, CreateSecret,
         CreateClashes, RunTest, Rejected, Save, RequestFails, coVars, mgVars

\* The tables are those of the revision, whatever sequence of upgrades and
\* downgrades led to it.
THEOREM MigratedInvariant == COSpec => []MigratedInv
<1>1. COInit => MigratedInv
  BY DEF COInit, MGInit, MigratedInv, TablesAt, HeadRevision
<1> QED
  BY <1>1, MigratedStep, PTL DEF COSpec

\* The next upgrade to the head and the next downgrade always run without an
\* error, whatever tables have rows.
THEOREM MigrationsRun == COSpec => []MigrationsApply
<1>1. MigratedInv => MigrationsApply
  BY ScriptsRun, NeverBroken DEF MigratedInv, MigrationsApply, HeadRevision
<1> QED
  BY <1>1, MigratedInvariant, PTL

\* The columns of the head, table by table, against those of the model.
ColumnsFit(columns, model) ==
    /\ DOMAIN columns = DOMAIN model
    /\ \A c \in DOMAIN model : columns[c] \in Fits(model[c])

LEMMA AgentsFit == ColumnsFit(CreateAgents.columns, AgentRow)
<1> DEFINE columns == CreateAgents.columns
<1>1. DOMAIN columns = DOMAIN AgentRow
  BY DEF CreateAgents, CreateTable, AgentRow
<1>2. \A c \in DOMAIN AgentRow : columns[c] \in Fits(AgentRow[c])
  BY DEF CreateAgents, CreateTable, AgentRow, Fits
<1> QED
  BY <1>1, <1>2 DEF ColumnsFit

LEMMA ConnectionsFit == ColumnsFit(Named, ConnectionRow)
<1> DEFINE columns == CreateConnections.columns
<1>1. /\ DOMAIN columns = {"connection_id", "account_id", "source", "secret_ref",
                           "status", "created_at"}
      /\ \A c \in DOMAIN columns : columns[c] \in Fits(ConnectionRow[c])
  BY DEF CreateConnections, CreateTable, ConnectionRow, Fits
<1>2. /\ DOMAIN ConnectionRow = {"connection_id", "account_id", "source",
             "secret_ref", "status", "created_at", "last_tested_at", "name"}
      /\ "null" \in Fits(ConnectionRow["last_tested_at"])
      /\ "required" \in Fits(ConnectionRow["name"])
  BY DEF ConnectionRow, Fits
<1> HIDE DEF columns
<1>3. /\ DOMAIN Named = DOMAIN columns \cup {"last_tested_at", "name"}
      /\ \A c \in DOMAIN columns : Named[c] = columns[c]
      /\ Named["last_tested_at"] = "null"
      /\ Named["name"] = "required"
  BY <1>1 DEF Named, Testable, With, columns
<1> QED
  BY <1>1, <1>2, <1>3 DEF ColumnsFit

LEMMA PipelinesFit == ColumnsFit(Stateful, PipelineRow)
<1> DEFINE columns == CreatePipelines.columns
<1>1. /\ DOMAIN columns = {"pipeline_id", "account_id", "agent_id",
             "connection_id", "connector", "table_name", "schedule", "params",
             "is_active", "created_at"}
      /\ \A c \in DOMAIN columns : columns[c] \in Fits(PipelineRow[c])
  BY DEF CreatePipelines, CreateTable, PipelineRow, Fits
<1>2. /\ DOMAIN PipelineRow = {"pipeline_id", "account_id", "agent_id",
             "connection_id", "connector", "table_name", "schedule", "params",
             "is_active", "created_at", "state"}
      /\ "null" \in Fits(PipelineRow["state"])
  BY DEF PipelineRow, Fits
<1> HIDE DEF columns
<1>3. /\ DOMAIN Stateful = DOMAIN columns \cup {"state"}
      /\ \A c \in DOMAIN columns : Stateful[c] = columns[c]
      /\ Stateful["state"] = "null"
  BY <1>1 DEF Stateful, With, columns
<1> QED
  BY <1>1, <1>2, <1>3 DEF ColumnsFit

LEMMA JobRunsFit == ColumnsFit(CreateJobRuns.columns, JobRunRow)
<1> DEFINE columns == CreateJobRuns.columns
<1>1. DOMAIN columns = DOMAIN JobRunRow
  BY DEF CreateJobRuns, CreateTable, JobRunRow
<1>2. \A c \in DOMAIN JobRunRow : columns[c] \in Fits(JobRunRow[c])
  BY DEF CreateJobRuns, CreateTable, JobRunRow, Fits
<1> QED
  BY <1>1, <1>2 DEF ColumnsFit

\* The migrations and the models agree on the tables and their columns, however
\* the database got to the head revision.
THEOREM HeadMatchesModels == COSpec => []HeadIsModels
<1>1. ASSUME MigratedInv, revision = HeadRevision PROVE HeadIsModels
  <2>1. tables = Four(Named, Stateful)
    BY <1>1 DEF MigratedInv, TablesAt, HeadRevision
  <2>2. /\ DOMAIN Models = Tables
        /\ Models["agents"] = AgentRow
        /\ Models["connections"] = ConnectionRow
        /\ Models["pipelines"] = PipelineRow
        /\ Models["job_runs"] = JobRunRow
    BY DEF Models, Tables
  <2>3. /\ DOMAIN tables = Tables
        /\ tables["agents"].columns = CreateAgents.columns
        /\ tables["connections"].columns = Named
        /\ tables["pipelines"].columns = Stateful
        /\ tables["job_runs"].columns = CreateJobRuns.columns
    BY <2>1 DEF Four, Tables
  <2>4. \A t \in Tables : ColumnsFit(tables[t].columns, Models[t])
    BY <2>2, <2>3, AgentsFit, ConnectionsFit, PipelinesFit, JobRunsFit DEF Tables
  <2> QED
    BY <2>2, <2>3, <2>4 DEF ColumnsFit, HeadIsModels
<1>2. MigratedInv => HeadIsModels
  BY <1>1 DEF HeadIsModels
<1> QED
  BY <1>2, MigratedInvariant, PTL

=============================================================================
