----------------------------- MODULE Connections -----------------------------
(***************************************************************************)
(* Connections: credentials in Secrets Manager, a row that refers to them, *)
(* and the status that tells whether the source accepts them.  Saving a    *)
(* connection and testing it again take several calls to other services,   *)
(* between which requests of other threads and replicas get in.  They need *)
(* the tables as the ORM describes them, which are migrated meanwhile.     *)
(***************************************************************************)
EXTENDS Migrations, Registry

CONSTANTS
    Connection,     \* rows of connections that may ever be inserted
    SecretRef,      \* names in Secrets Manager
    RefOf,          \* orchestrator/{account_id}/{source} of each connection
    SourceOf,       \* the source that each is said to be of
    Credential,
    FieldsOf,       \* what each has
    NoCredential,
    Request,        \* handler threads
    Unstable,       \* credentials that the source may stop or start to accept
    Failing         \* whether Secrets Manager, the database or a process may fail

ASSUME ConnectionsAssumption ==
    /\ RefOf \in [Connection -> SecretRef]
    /\ \A c, d \in Connection : RefOf[c] = RefOf[d] => SourceOf[c] = SourceOf[d]
    /\ NoCredential \notin Credential
    /\ Unstable \subseteq Credential
    /\ Failing \in BOOLEAN

VARIABLES
    secret,     \* Secrets Manager
    accepted,   \* the credentials that the source API accepts
    status,     \* Connection.status, where there is a row
    pc,         \* where each request is
    about,      \* the connection it is about: any, when the request is idle
    held        \* the credentials it has in memory, or its verdict on them

coVars == <<secret, accepted, status, pc, about, held, tables, revision>>

Verdict == {"active", "failed"}

\* Secrets, rows and requests keep their types.
COTypeOK ==
    /\ secret \in [SecretRef -> Credential \cup {NoCredential}]
    /\ accepted \subseteq Credential
    /\ status \in [Connection -> Verdict \cup {"absent"}]
    /\ pc \in [Request -> {"idle", "putting", "naming", "testing", "retesting",
                        "saving", "updating"}]
    /\ about \in [Request -> Connection]
    /\ held \in [Request -> Credential \cup Verdict \cup {NoCredential}]
    /\ revision \in 0..HeadRevision

COInit ==
    /\ secret = [f \in SecretRef |-> NoCredential]
    /\ accepted \in SUBSET Credential
    /\ status = [c \in Connection |-> "absent"]
    /\ pc = [r \in Request |-> "idle"]
    /\ about \in {[r \in Request |-> c] : c \in Connection}
    /\ held = [r \in Request |-> NoCredential]
    /\ MGInit

Ref(r) == RefOf[about[r]]

Goto(r, label) == pc' = [pc EXCEPT ![r] = label]

\* Key rotation, or an outage and its end.
Rotate(k) ==
    /\ k \in Unstable
    /\ accepted' = IF k \in accepted THEN accepted \ {k} ELSE accepted \cup {k}
    /\ UNCHANGED <<secret, status, pc, about, held, mgVars>>

-----------------------------------------------------------------------------
\* POST /connections: put_secret, the test, the row.

Unused(c) ==
    /\ status[c] = "absent"
    /\ \A r \in Request : pc[r] # "idle" => about[r] # c

Submit(r, c, k) ==
    /\ pc[r] = "idle"
    /\ Unused(c)
    /\ Goto(r, "putting")
    /\ about' = [about EXCEPT ![r] = c]
    /\ held' = [held EXCEPT ![r] = k]
    /\ UNCHANGED <<secret, accepted, status, mgVars>>

\* Mutation of PutSecretValue: a name that does not exist is not created.
PutSecretOnly(r) ==
    /\ pc[r] = "putting"
    /\ Goto(r, "testing")
    /\ IF secret[Ref(r)] = NoCredential
       THEN UNCHANGED secret
       ELSE secret' = [secret EXCEPT ![Ref(r)] = held[r]]
    /\ UNCHANGED <<accepted, status, about, held, mgVars>>

\* put_secret_value, which does not find a name that was never used.
PutSecretValue(r) ==
    /\ pc[r] = "putting"
    /\ IF secret[Ref(r)] = NoCredential
       THEN Goto(r, "naming") /\ UNCHANGED secret
       ELSE Goto(r, "testing") /\ secret' = [secret EXCEPT ![Ref(r)] = held[r]]
    /\ UNCHANGED <<accepted, status, about, held, mgVars>>

\* create_secret, unless another request has created it in the meantime.
CreateSecret(r) ==
    /\ pc[r] = "naming"
    /\ secret[Ref(r)] = NoCredential
    /\ secret' = [secret EXCEPT ![Ref(r)] = held[r]]
    /\ Goto(r, "testing")
    /\ UNCHANGED <<accepted, status, about, held, mgVars>>

\* The name was created by another request since: create_secret raises.
CreateClashes(r) ==
    /\ pc[r] = "naming"
    /\ secret[Ref(r)] # NoCredential
    /\ held' = [held EXCEPT ![r] = NoCredential]
    /\ Goto(r, "idle")
    /\ UNCHANGED <<secret, accepted, status, about, mgVars>>

-----------------------------------------------------------------------------
\* POST /connections/{connection_id}/test. Its transaction is open from the SELECT
\* to the commit.

Retest(r, c) ==
    /\ pc[r] = "idle"
    /\ Selectable("connections")
    /\ status[c] # "absent"
    /\ Goto(r, "retesting")
    /\ about' = [about EXCEPT ![r] = c]
    /\ held' = [held EXCEPT ![r] = secret[RefOf[c]]]
    /\ UNCHANGED <<secret, accepted, status, mgVars>>

-----------------------------------------------------------------------------
\* Both: _run_test, then the commit.

\* What the registry makes of the source of c and of credentials k.
Built(c, k) == Build(SourceOf[c], FieldsOf[k])

\* The source gets credentials that are complete, and takes them or not.
Works(c, k) == k \in Credential /\ Built(c, k) = "connector" /\ k \in accepted

Tested(r) == pc' = [pc EXCEPT ![r] = IF pc[r] = "testing" THEN "saving" ELSE "updating"]

\* Mutations of RunTest: an exception is not taken for a failure, or no outcome
\* is worked out.
RunTestBlind(r) ==
    /\ pc[r] \in {"testing", "retesting"}
    /\ held' = [held EXCEPT ![r] = "active"]
    /\ Tested(r)
    /\ UNCHANGED <<secret, accepted, status, about, mgVars>>

RunTestSilent(r) ==
    /\ pc[r] \in {"testing", "retesting"}
    /\ Tested(r)
    /\ UNCHANGED <<secret, accepted, status, about, held, mgVars>>

RunTest(r) ==
    /\ pc[r] \in {"testing", "retesting"}
    /\ Built(about[r], held[r]) # "KeyError"
    /\ held' = [held EXCEPT ![r] = IF Works(about[r], held[r]) THEN "active" ELSE "failed"]
    /\ Tested(r)
    /\ UNCHANGED <<secret, accepted, status, about, mgVars>>

\* Mutation of Rejected: the row is inserted all the same.
RejectedLate(r) ==
    /\ pc[r] \in {"testing", "retesting"}
    /\ Built(about[r], held[r]) = "KeyError"
    /\ held' = [held EXCEPT ![r] = "failed"]
    /\ Tested(r)
    /\ UNCHANGED <<secret, accepted, status, about, mgVars>>

\* The registry does not know the source: 400, with the secret already stored.
Rejected(r) ==
    /\ pc[r] \in {"testing", "retesting"}
    /\ Built(about[r], held[r]) = "KeyError"
    /\ held' = [held EXCEPT ![r] = NoCredential]
    /\ Goto(r, "idle")
    /\ UNCHANGED <<secret, accepted, status, about, mgVars>>

\* INSERT or UPDATE, and the commit.
Save(r) ==
    /\ \/ pc[r] = "saving" /\ Insertable("connections")
       \/ pc[r] = "updating"
    /\ status' = [status EXCEPT ![about[r]] = held[r]]
    /\ held' = [held EXCEPT ![r] = NoCredential]
    /\ Goto(r, "idle")
    /\ UNCHANGED <<secret, accepted, about, mgVars>>

\* Secrets Manager or the database raises, the process dies, or the table is not
\* what the INSERT takes it for.
RequestFails(r) ==
    /\ pc[r] # "idle"
    /\ Failing \/ (pc[r] = "saving" /\ ~Insertable("connections"))
    /\ held' = [held EXCEPT ![r] = NoCredential]
    /\ Goto(r, "idle")
    /\ UNCHANGED <<secret, accepted, status, about, mgVars>>

-----------------------------------------------------------------------------
\* make migrate and make migrate-down, while the orchestrator serves.

\* DDL waits for transactions that have read the table.
Unread == \A r \in Request : pc[r] \notin {"retesting", "updating"}

\* Tables that may have rows: those of connections are known.
Occupied ==
    {"agents", "pipelines", "job_runs"} \cup
    (IF \E c \in Connection : status[c] # "absent" THEN {"connections"} ELSE {})

\* The rows go with their table.
KeepRows ==
    status' = [c \in Connection |->
                  IF "connections" \in DOMAIN tables' THEN status[c] ELSE "absent"]

MigrateUp ==
    /\ Unread
    /\ UpgradeHead(Occupied)
    /\ KeepRows
    /\ UNCHANGED <<secret, accepted, pc, about, held>>

MigrateDown ==
    /\ Unread
    /\ Downgrade(Occupied)
    /\ KeepRows
    /\ UNCHANGED <<secret, accepted, pc, about, held>>

-----------------------------------------------------------------------------

CONext ==
    \/ \E k \in Credential : Rotate(k)
    \/ \E r \in Request :
         \/ \E c \in Connection :
              \/ \E k \in Credential : Submit(r, c, k)
              \/ Retest(r, c)
         \/ PutSecretValue(r)
         \/ CreateSecret(r)
         \/ CreateClashes(r)
         \/ RunTest(r)
         \/ Rejected(r)
         \/ Save(r)
         \/ RequestFails(r)
    \/ MigrateUp
    \/ MigrateDown

COSpec == COInit /\ [][CONext]_coVars

-----------------------------------------------------------------------------
\* Properties

\* A row never refers to a secret that does not exist: get_secret would fail
\* every poll of its agent. The secret is stored before the row, over failures
\* between the two, requests that race for the name, and migrations.
NoDanglingRef ==
    \A c \in Connection : status[c] # "absent" =>
        secret[RefOf[c]] # NoCredential

\* No other connection is stored under the same name.
OwnsSecret(c) == \A d \in Connection \ {c} : RefOf[d] # RefOf[c]

\* The source does not change its mind on its credentials, or never sees them.
Steady(c) ==
    /\ OwnsSecret(c)
    /\ secret[RefOf[c]] \notin Unstable \/ Built(c, secret[RefOf[c]]) # "connector"

\* As long as the source does not change its mind on its credentials, the status
\* of a connection that has a secret of its own tells whether they work ("status
\* reflects the test result"), over tests that run at the same time, requests
\* that fail, and connections that race for another name.
StatusTellsOfSecret ==
    \A c \in Connection :
        status[c] # "absent" /\ Steady(c) =>
            (status[c] = "active" <=> Works(c, secret[RefOf[c]]))

\* GET /connections/{connection_id}/schema: the tables of the connection, or an
\* error.
ListSchema(c) == GetSchemas(SourceOf[c], FieldsOf[secret[RefOf[c]]])

\* Whoever saved a connection can list its tables: the source of a row is known
\* to the registry, although the row is written long after the check and nothing
\* but the failing test keeps an unknown source out; and credentials that passed
\* the test with the representative connector configure all connectors.
TestedIsListed ==
    \A c \in Connection : status[c] # "absent" =>
        /\ ListSchema(c) # "KeyError"
        /\ OwnsSecret(c) /\ status[c] = "active" => ListSchema(c) = "tables"

\* Whatever sequence of upgrades and downgrades led here, and whatever rows there
\* are, the next upgrade to the head and the next downgrade run without an error:
\* nothing is added twice or dropped while it is referred to, and no column is
\* required of rows that do not have it.
MigrationsApply ==
    /\ revision < HeadRevision => UpgradeScript(Occupied) # Broken
    /\ revision > 0 => DowngradeScript(Occupied) # Broken
=============================================================================
