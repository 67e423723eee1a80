------------------------------- MODULE SyncRun -------------------------------
(***************************************************************************)
(* One table and the runs of BaseSourceConnector.sync that fill it: the    *)
(* records that extract() yields (module Paging) are transformed,          *)
(* validated and batched one by one (module Rows), and full batches are    *)
(* loaded into ClickHouse.  Turbocat sees a run as a set of records that   *)
(* shrinks; here are the batches, the counters of the SyncResult and the   *)
(* table: a ReplacingMergeTree that keeps, for each id, the row with the   *)
(* largest _extracted_at, the last inserted one among equals.              *)
(***************************************************************************)
EXTENDS Paging

CONSTANTS
    BatchSize,  \* batch_size
    Content,    \* the fields of each record of each connector, by their shape
    Failing     \* whether requests and inserts may fail

ASSUME SyncRunAssumption ==
    /\ BatchSize \in Nat \ {0}
    /\ \A c \in ConnectorName, x \in Record : Content[c][x] \in [Keys(c) -> Shape]
    /\ Failing \in BOOLEAN

VARIABLES
    batch,      \* each run: the rows it has not loaded yet
    extracted, loaded, failed,  \* the counters of its SyncResult
    table,      \* the row of each id that survives a merge
    stored,     \* history: how many rows each run got into the table
    handled,    \* history: the records each run has loaded or skipped
    mixed       \* history: whether two runs have overlapped

counters == <<extracted, loaded, failed>>
syncVars == <<batch, counters, table, stored, handled, mixed>>
srVars == <<pagingVars, syncVars>>

\* What happens to the records of each connector.
Poison == [c \in ConnectorName |->
             {x \in Record : Raises(c, Content[c][x])}]
Accepted == [c \in ConnectorName |->
               {x \in Record \ Poison[c] :
                  Validate(c, Transform(c, Content[c][x]))}]
Fitting == [c \in ConnectorName |->
              {x \in Record \ Poison[c] :
                 Storable(c, Transform(c, Content[c][x]))}]

\* "seen" is when its record was fetched, "at" is _extracted_at.
Row == [id : Record, seen : 0 .. MaxClock, at : 0 .. MaxClock]
NoRow == [id |-> 0, seen |-> -1, at |-> -1]

\* Pages, batches and the table keep their types, and a run never holds more
\* than batch_size rows (sync(), "How batching works").
SRTypeOK ==
    /\ PagingTypeOK
    /\ batch \in [Run -> Seq(Row)]
    /\ \A r \in Run : Len(batch[r]) <= BatchSize
    /\ extracted \in [Run -> Nat]
    /\ loaded \in [Run -> Nat]
    /\ failed \in [Run -> Nat]
    /\ table \in [Record -> Row \cup {NoRow}]
    /\ stored \in [Run -> Nat]
    /\ handled \in [Run -> SUBSET Record]
    /\ mixed \in BOOLEAN

SRInit ==
    /\ PagingInit
    /\ batch = [r \in Run |-> <<>>]
    /\ extracted = [r \in Run |-> 0]
    /\ loaded = [r \in Run |-> 0]
    /\ failed = [r \in Run |-> 0]
    /\ table = [x \in Record |-> NoRow]
    /\ stored = [r \in Run |-> 0]
    /\ handled = [r \in Run |-> {}]
    /\ mixed = FALSE

-----------------------------------------------------------------------------
\* sync()

Start(r, w) ==
    /\ Begin(r, w)
    /\ mixed' = (mixed \/ \E q \in Run : phase[q] = "running")
    /\ UNCHANGED <<batch, counters, table, stored, handled>>

\* Mutation of Full: the batch is flushed one record too late.
FullLate(r) == Len(batch[r]) > BatchSize

Full(r) == Len(batch[r]) >= BatchSize

\* The loop asks the generator for a record, and that asks the source.
Request(r) ==
    /\ ~Full(r)
    /\ FetchPage(r) \/ CutShort(r) \/ FetchDay(r) \/ SkipDay(r)
    /\ UNCHANGED syncVars

\* extract() yields the next record; it is validated and batched.
Consume(r, x) ==
    /\ ~Full(r)
    /\ Yield(r, x)
    /\ x \notin Poison[connector]
    /\ extracted' = [extracted EXCEPT ![r] = @ + 1]
    /\ IF x \in Accepted[connector]
       THEN /\ batch' = [batch EXCEPT ![r] =
                           Append(@, [id |-> x, seen |-> at[r], at |-> clock])]
            /\ UNCHANGED <<failed, handled>>
       ELSE /\ failed' = [failed EXCEPT ![r] = @ + 1]
            /\ handled' = [handled EXCEPT ![r] = @ \cup {x}]
            /\ UNCHANGED batch
    /\ UNCHANGED <<loaded, table, stored, mixed>>

\* Mutation of Wins: the first row of an id stays.
WinsNever(n, o) == o = NoRow

Wins(n, o) == n.at >= o.at

\* The last row of an id among those of a batch: stamps do not decrease.
LastOf(rows, x) ==
    rows[CHOOSE i \in DOMAIN rows :
           rows[i].id = x /\ \A j \in DOMAIN rows : rows[j].id = x => j <= i]

Merge(rows) ==
    [x \in Record |->
       IF /\ \E i \in DOMAIN rows : rows[i].id = x
          /\ Wins(LastOf(rows, x), table[x])
       THEN LastOf(rows, x)
       ELSE table[x]]

Ids(rows) == {rows[i].id : i \in DOMAIN rows}

\* _flush: a batch that is full, or the last one.
CanFlush(r) == batch[r] # <<>> /\ (Full(r) \/ Exhausted(r))

\* ClickHouse makes the table and takes every row of the batch.
Takes(rows) ==
    /\ Loadable(connector)
    /\ \A i \in DOMAIN rows : rows[i].id \in Fitting[connector]

Insert(r) ==
    /\ CanFlush(r)
    /\ Takes(batch[r])
    /\ table' = Merge(batch[r])
    /\ stored' = [stored EXCEPT ![r] = @ + Len(batch[r])]
    /\ handled' = [handled EXCEPT ![r] = @ \cup Ids(batch[r])]
    /\ batch' = [batch EXCEPT ![r] = <<>>]

\* Mutation of Confirmed: every batch counts as a full one.
ConfirmedFull(r) == loaded[r] + BatchSize

\* records_loaded: load() answers with the length of the batch.
Confirmed(r) == loaded[r] + Len(batch[r])

Flush(r) ==
    /\ Insert(r)
    /\ loaded' = [loaded EXCEPT ![r] = Confirmed(r)]
    /\ UNCHANGED <<pagingVars, extracted, failed, mixed>>

\* Mutation of Done: the last partial batch is not flushed.
DoneEarly(r) == Exhausted(r) /\ ~Full(r)

Done(r) == Exhausted(r) /\ batch[r] = <<>>

Finish(r) ==
    /\ Done(r)
    /\ End(r, "success")
    /\ UNCHANGED syncVars

\* What the run still held is dropped; the counters are kept for the result.
Break(r) ==
    /\ End(r, "error")
    /\ batch' = [batch EXCEPT ![r] = <<>>]
    /\ UNCHANGED <<counters, mixed>>

\* A request or an insert fails.
RunFails(r) ==
    /\ Failing
    /\ Break(r)
    /\ UNCHANGED <<table, stored, handled>>

\* transform() raises: one record ends the run, every time it is fetched.
TransformRaises(r, x) ==
    /\ ~Full(r)
    /\ IsNext(r, x)
    /\ x \in Poison[connector]
    /\ Break(r)
    /\ UNCHANGED <<table, stored, handled>>

\* The table has no id to be ordered by, or a row does not fit its columns.
Refused(r) ==
    /\ CanFlush(r)
    /\ ~Takes(batch[r])
    /\ Break(r)
    /\ UNCHANGED <<table, stored, handled>>

\* The connection breaks after ClickHouse took the rows and before it said so.
InsertUnconfirmed(r) ==
    /\ Failing
    /\ Insert(r)
    /\ End(r, "error")
    /\ UNCHANGED <<counters, mixed>>

SRNext ==
    \/ Tick /\ UNCHANGED syncVars
    \/ Appear /\ UNCHANGED syncVars
    \/ \E r \in Run :
         \/ \E w \in Window : Start(r, w)
         \/ Request(r)
         \/ \E x \in page[r] : Consume(r, x) \/ TransformRaises(r, x)
         \/ Flush(r)
         \/ Finish(r)
         \/ RunFails(r)
         \/ Refused(r)
         \/ InsertUnconfirmed(r)

SRSpec == SRInit /\ [][SRNext]_srVars

-----------------------------------------------------------------------------
\* Properties

\* The counters of a SyncResult add up, also in the middle of a run: what was
\* extracted is loaded, skipped, or still in the batch. After an error they
\* never claim more than what got into the table, though they may claim less.
CountsAddUp ==
    \A r \in Run :
        /\ phase[r] # "error" =>
             /\ extracted[r] = loaded[r] + failed[r] + Len(batch[r])
             /\ loaded[r] = stored[r]
        /\ loaded[r] <= stored[r]

\* A run that ends as a success met no record that transform() chokes on, and
\* every valid record it owed is in the table, the last partial batch included,
\* in a copy that is no older than the run unless runs overlapped; no later run
\* takes it out again.
SuccessLoadsAll ==
    \A r \in Run : phase[r] = "success" =>
        /\ yielded[r] \cap Poison[connector] = {}
        /\ \A x \in Owed(r) \cap Accepted[connector] :
             /\ table[x] # NoRow
             /\ ~mixed => table[x].seen >= began[r]

\* As long as no two runs overlap, a newer copy of a record is never displaced
\* by an older one, over changes of the record, retries of what failed and
\* inserts that were taken but not confirmed. The merge goes by _extracted_at
\* ("When we fetched it", orders_connector.py), the time of transform().
LastFetchedSurvives ==
    [][~mixed' =>
         /\ \A x \in Record : table'[x].seen >= table[x].seen
         /\ \A r \in Run : stored'[r] # stored[r] =>
              \A i \in DOMAIN batch[r] :
                table'[batch[r][i].id].seen >= batch[r][i].seen]_srVars

\* The rows that wait for their insert are those that ClickHouse takes, if their
\* columns of text come from a text or from nothing, and only then: what may be
\* missing in a row is exactly what is nullable, transform() gives numbers and
\* dates the type of their column, and no step between the source and the insert
\* turns anything else into text (customers_connector.py, "notes").
BatchFits ==
    \A r \in Run : \A i \in DOMAIN batch[r] :
        LET x == batch[r][i].id
        IN  x \in Fitting[connector] <=> Textual(connector, Content[connector][x])

\* A run as its caller may think of it: what it has still to fetch or load, the
\* records it may skip, when they were created, and which are in the table.
Todo(r) == IF phase[r] = "running" THEN Owed(r) \ handled[r] ELSE {}
Todos == [r \in Run |-> Todo(r)]
Skippable == [c \in ConnectorName |-> Record \ (Accepted[c] \cup Poison[c])]
Created == [x \in Record |-> IF x \in DOMAIN born THEN born[x] ELSE NoTime]
Kept == {x \in Record : table[x] # NoRow}

\* Runs keep the promise of Sync, which is how Turbocat sees them: from its call
\* on a run has every record of its window to load or to skip, it loads none that
\* the window does not select, it succeeds when nothing is left, and only what
\* its source withheld is forgiven. A record that transform() chokes on is not
\* malformed: no run succeeds that owes it.
Promised == INSTANCE Sync WITH
    LastTick <- MaxClock, Malformed <- Skippable,
    created <- Created, todo <- Todos, dest <- Kept

SyncsAsPromised == Promised!SYSpec
=============================================================================
