----------------------------- MODULE Migrations -----------------------------
(***************************************************************************)
(* The tables of the orchestrator as alembic makes them: what each         *)
(* migration does, going up and down, and what the ORM expects of them.    *)
(* Postgres runs DDL in transactions, and env.py has one for a whole run:  *)
(* a run that fails, or that dies, changes nothing.                        *)
(***************************************************************************)
EXTENDS Integers

VARIABLES
    tables,     \* what is there: columns and the tables its keys refer to
    revision    \* alembic_version

mgVars == <<tables, revision>>

\* A column can be null, or is required, or is filled by its server default.

CreateTable(t, columns, refs) ==
    [ddl |-> "create", table |-> t, columns |-> columns, refs |-> refs]
DropTable(t) == [ddl |-> "drop", table |-> t]
AddColumn(t, c, kind) == [ddl |-> "add", table |-> t, column |-> c, kind |-> kind]
DropDefault(t, c) == [ddl |-> "required", table |-> t, column |-> c]
DropColumn(t, c) == [ddl |-> "remove", table |-> t, column |-> c]
DropSchema == [ddl |-> "schema"]

\* The tables of the first script.
CreateAgents == CreateTable("agents",
    [agent_id |-> "required", account_id |-> "required", last_seen_at |-> "null",
     status |-> "filled", created_at |-> "filled"], {})

CreateConnections == CreateTable("connections",
    [connection_id |-> "required", account_id |-> "required",
     source |-> "required", secret_ref |-> "required",
     status |-> "filled", created_at |-> "filled"], {})

CreatePipelines == CreateTable("pipelines",
    [pipeline_id |-> "required", account_id |-> "required",
     agent_id |-> "required", connection_id |-> "required",
     connector |-> "required", table_name |-> "required",
     schedule |-> "required", params |-> "filled", is_active |-> "filled",
     created_at |-> "filled"], {"agents", "connections"})

CreateJobRuns == CreateTable("job_runs",
    [job_id |-> "required", pipeline_id |-> "required", agent_id |-> "required",
     status |-> "filled", created_at |-> "filled", started_at |-> "null",
     completed_at |-> "null", rows_synced |-> "null", error |-> "null"],
    {"pipelines", "agents"})

-----------------------------------------------------------------------------
\* What a statement needs and does. A database that a statement failed in is not
\* looked at any more: its transaction is rolled back.

Broken == [error |-> {}]

Executable(db, s, occupied) ==
    CASE s.ddl = "create"   -> s.table \notin DOMAIN db /\ s.refs \subseteq DOMAIN db
      [] s.ddl = "drop"     -> /\ s.table \in DOMAIN db
                               /\ \A t \in DOMAIN db \ {s.table} : s.table \notin db[t].refs
      [] s.ddl = "add"      -> /\ s.table \in DOMAIN db
                               /\ s.column \notin DOMAIN db[s.table].columns
                               /\ s.kind = "required" => s.table \notin occupied
      [] s.ddl = "schema"   -> DOMAIN db = {}
      [] OTHER              -> /\ s.table \in DOMAIN db
                               /\ s.column \in DOMAIN db[s.table].columns

Effect(db, s) ==
    CASE s.ddl = "create"   -> [t \in DOMAIN db \cup {s.table} |->
                                   IF t = s.table
                                   THEN [columns |-> s.columns, refs |-> s.refs]
                                   ELSE db[t]]
      [] s.ddl = "drop"     -> [t \in DOMAIN db \ {s.table} |-> db[t]]
      [] s.ddl = "add"      -> [db EXCEPT ![s.table].columns =
                                   [c \in DOMAIN @ \cup {s.column} |->
                                       IF c = s.column THEN s.kind ELSE @[c]]]
      [] s.ddl = "required" -> [db EXCEPT ![s.table].columns[s.column] = "required"]
      [] s.ddl = "remove"   -> [db EXCEPT ![s.table].columns =
                                   [c \in DOMAIN @ \ {s.column} |-> @[c]]]
      [] s.ddl = "schema"   -> db

\* One statement in a database of which some tables are occupied.
Execute(db, s, occupied) ==
    IF db # Broken /\ Executable(db, s, occupied) THEN Effect(db, s) ELSE Broken

-----------------------------------------------------------------------------
\* upgrade() of each script

Init0001(db, occupied) ==
    LET Create(d, s) == Execute(d, s, occupied)
    IN  Create(Create(Create(Create(db, CreateAgents), CreateConnections),
                      CreatePipelines), CreateJobRuns)

\* Mutation of State0002: a column that the model may leave empty is required.
State0002Strict(db, occupied) ==
    Execute(db, AddColumn("pipelines", "state", "filled"), occupied)

State0002(db, occupied) ==
    Execute(db, AddColumn("pipelines", "state", "null"), occupied)

Tested0003(db, occupied) ==
    Execute(db, AddColumn("connections", "last_tested_at", "null"), occupied)

\* Mutation of Name0004: no default for the rows that are there.
Name0004Bare(db, occupied) ==
    Execute(db, AddColumn("connections", "name", "required"), occupied)

Name0004(db, occupied) ==
    Execute(Execute(db, AddColumn("connections", "name", "filled"), occupied),
            DropDefault("connections", "name"), occupied)

Upgrade(n, db, occupied) ==
    CASE n = 1 -> Init0001(db, occupied)
      [] n = 2 -> State0002(db, occupied)
      [] n = 3 -> Tested0003(db, occupied)
      [] n = 4 -> Name0004(db, occupied)

HeadRevision == 4

\* downgrade() of each script

DropAll(db, occupied) ==
    LET Drop(d, t) == Execute(d, DropTable(t), occupied)
    IN  Execute(Drop(Drop(Drop(Drop(db, "job_runs"), "pipelines"),
                          "connections"), "agents"), DropSchema, occupied)

Undo(n, db, occupied) ==
    CASE n = 1 -> DropAll(db, occupied)
      [] n = 2 -> Execute(db, DropColumn("pipelines", "state"), occupied)
      [] n = 3 -> Execute(db, DropColumn("connections", "last_tested_at"), occupied)
      [] n = 4 -> Execute(db, DropColumn("connections", "name"), occupied)

-----------------------------------------------------------------------------

MGInit ==
    /\ tables = [t \in {} |-> {}]
    /\ revision = 0

\* alembic upgrade head: the scripts that the database has not seen, in turn.
UpgradeScript(occupied) ==
    LET Run(n, db) == IF n > revision THEN Upgrade(n, db, occupied) ELSE db
    IN  Run(4, Run(3, Run(2, Run(1, tables))))

UpgradeHead(occupied) ==
    /\ revision < HeadRevision
    /\ UpgradeScript(occupied) # Broken
    /\ tables' = UpgradeScript(occupied)
    /\ revision' = HeadRevision

\* alembic downgrade -1
DowngradeScript(occupied) == Undo(revision, tables, occupied)

Downgrade(occupied) ==
    /\ revision > 0
    /\ DowngradeScript(occupied) # Broken
    /\ tables' = DowngradeScript(occupied)
    /\ revision' = revision - 1

-----------------------------------------------------------------------------
\* The models of the ORM: a column can be null, is given by every INSERT, or is
\* left to the server default.

AgentRow ==
    [agent_id |-> "given", account_id |-> "given", last_seen_at |-> "null",
     status |-> "given", created_at |-> "filled"]

ConnectionRow ==
    [connection_id |-> "given", account_id |-> "given", name |-> "given",
     source |-> "given", secret_ref |-> "given", status |-> "given",
     last_tested_at |-> "null", created_at |-> "filled"]

PipelineRow ==
    [pipeline_id |-> "given", account_id |-> "given", agent_id |-> "given",
     connection_id |-> "given", connector |-> "given", table_name |-> "given",
     schedule |-> "given", params |-> "given", state |-> "null",
     is_active |-> "given", created_at |-> "filled"]

JobRunRow ==
    [job_id |-> "given", pipeline_id |-> "given", agent_id |-> "given",
     status |-> "given", created_at |-> "filled", started_at |-> "null",
     completed_at |-> "null", rows_synced |-> "null", error |-> "null"]

Models ==
    [agents |-> AgentRow, connections |-> ConnectionRow, pipelines |-> PipelineRow,
     job_runs |-> JobRunRow]

\* A SELECT of a model names all of its columns.
Selectable(model) ==
    /\ model \in DOMAIN tables
    /\ DOMAIN Models[model] \subseteq DOMAIN tables[model].columns

\* An INSERT gives all that the table requires.
Insertable(model) ==
    /\ Selectable(model)
    /\ \A c \in DOMAIN tables[model].columns :
          tables[model].columns[c] = "required" =>
              c \in DOMAIN Models[model] /\ Models[model][c] = "given"

\* What each kind of the ORM can be in the database.
Fits(kind) ==
    CASE kind = "null"   -> {"null"}
      [] kind = "given"  -> {"required", "filled"}
      [] kind = "filled" -> {"filled"}

-----------------------------------------------------------------------------
\* Properties

\* However the database got to the head revision, by upgrades and downgrades in
\* any order, its columns are those of the models, and they can be null, or are
\* filled in, where the models say so: two descriptions kept by hand, the scripts
\* and models/*.py.
HeadIsModels ==
    revision = HeadRevision =>
        /\ DOMAIN tables = DOMAIN Models
        /\ \A t \in DOMAIN Models :
              /\ DOMAIN tables[t].columns = DOMAIN Models[t]
              /\ \A c \in DOMAIN Models[t] :
                    tables[t].columns[c] \in Fits(Models[t][c])
=============================================================================
