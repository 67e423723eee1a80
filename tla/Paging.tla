-------------------------------- MODULE Paging --------------------------------
(***************************************************************************)
(* The extract() generators of the three connectors: the requests a run    *)
(* makes, one page or one day at a time, of a source that gets new records *)
(* in the meantime, and the records it yields.  Module SyncRun has what    *)
(* sync() does with them.                                                  *)
(*                                                                         *)
(* Record x is the x-th that was created.  The lists of Razorpay put the   *)
(* newest record first, so a record that appears while a run is paging     *)
(* moves the others back; nothing in the repository guards against an API  *)
(* with another order. A response of another shape than expected ends the  *)
(* list, or is passed over as a day without tickets; no error tells of it. *)
(***************************************************************************)
EXTENDS Extraction, FiniteSets, Sequences

CONSTANTS
    Run,        \* calls of sync(), each with a generator of its own
    Window,     \* the windows they may be called with
    PageSize,   \* count of a page request
    Withholding, \* the connectors whose source may answer without its records
    MaxRecords, \* bound: records ever created in the source
    MaxClock    \* bound: the clock, in seconds

ASSUME PagingAssumption ==
    /\ Window \subseteq [start : Int \cup {NoTime}, end : Int \cup {NoTime}]
    /\ PageSize \in Nat \ {0}
    /\ Withholding \subseteq ConnectorName
    /\ MaxRecords \in Nat
    /\ MaxClock \in Nat

VARIABLES
    connector,  \* the connector that is synced
    clock,
    born,       \* when each record of the source was created
    phase,      \* each run: idle, running, or the status of its SyncResult
    window,     \* its start_time and end_time
    began,      \* when it was called
    listed,     \* history: the records that existed then
    pos,        \* skip, or the day of its next request
    last,       \* whether it makes no more requests
    page,       \* the records of its last response that it has yet to yield
    at,         \* when it made its last request
    unread,     \* history: the records that it did not get for its requests
    yielded     \* history: the records it has yielded

runVars == <<phase, window, began, listed, pos, last, page, at, unread, yielded>>
pagingVars == <<connector, clock, born, runVars>>

Record == 1 .. MaxRecords
Tickets == connector = "kapture_tickets"

NoWindow == [start |-> NoTime, end |-> NoTime]

\* The type invariant, a part of SyncRun's.
PagingTypeOK ==
    /\ connector \in ConnectorName
    /\ clock \in 0 .. MaxClock
    /\ born \in Seq(0 .. MaxClock)
    /\ Len(born) <= MaxRecords
    /\ phase \in [Run -> {"idle", "running", "success", "error"}]
    /\ window \in [Run -> Window \cup {NoWindow}]
    /\ began \in [Run -> 0 .. MaxClock]
    /\ listed \in [Run -> Nat]
    /\ pos \in [Run -> Int]
    /\ last \in [Run -> BOOLEAN]
    /\ page \in [Run -> SUBSET Record]
    /\ at \in [Run -> 0 .. MaxClock]
    /\ unread \in [Run -> SUBSET Record]
    /\ yielded \in [Run -> SUBSET Record]

PagingInit ==
    /\ connector \in ConnectorName
    /\ clock = 0
    /\ born = <<>>
    /\ phase = [r \in Run |-> "idle"]
    /\ window = [r \in Run |-> NoWindow]
    /\ began = [r \in Run |-> 0]
    /\ listed = [r \in Run |-> 0]
    /\ pos = [r \in Run |-> 0]
    /\ last = [r \in Run |-> FALSE]
    /\ page = [r \in Run |-> {}]
    /\ at = [r \in Run |-> 0]
    /\ unread = [r \in Run |-> {}]
    /\ yielded = [r \in Run |-> {}]

-----------------------------------------------------------------------------
\* The clock and the source

Tick ==
    /\ clock < MaxClock
    /\ clock' = clock + 1
    /\ UNCHANGED <<connector, born, runVars>>

Appear ==
    /\ Len(born) < MaxRecords
    /\ born' = Append(born, clock)
    /\ UNCHANGED <<connector, clock, runVars>>

-----------------------------------------------------------------------------
\* extract()

FirstDay(w, now) == DayOf(IF w.start = NoTime THEN now ELSE w.start)
LastDay(w, now) == DayOf(IF w.end = NoTime THEN now ELSE w.end)

\* The window of a payload ends when it was made, before the run.
Begin(r, w) ==
    /\ phase[r] = "idle"
    /\ w \in Window
    /\ w.end # NoTime => w.end <= clock
    /\ phase' = [phase EXCEPT ![r] = "running"]
    /\ window' = [window EXCEPT ![r] = w]
    /\ began' = [began EXCEPT ![r] = clock]
    /\ listed' = [listed EXCEPT ![r] = Len(born)]
    /\ at' = [at EXCEPT ![r] = clock]
    /\ pos' = [pos EXCEPT ![r] = IF Tickets THEN FirstDay(w, clock) ELSE 0]
    /\ last' = [last EXCEPT ![r] =
                  Tickets /\ FirstDay(w, clock) > LastDay(w, clock)]
    /\ UNCHANGED <<connector, clock, born, page, unread, yielded>>

\* Mutation of Listing: the window is not passed on in the request.
ListingAll(r) == DOMAIN born

\* The answer to a list request without skip and count.
Listing(r) == {x \in DOMAIN born :
                 Extracts(connector, window[r], began[r], born[x])}

Ahead(r, x) == {y \in Listing(r) : x < y}

\* What the next page and those after it would hold.
Rest(r) == {x \in Listing(r) : pos[r] <= Cardinality(Ahead(r, x))}

PageAt(r) == {x \in Rest(r) : Cardinality(Ahead(r, x)) < pos[r] + PageSize}

\* Mutation of Short: a full page is taken for the last one.
ShortFull(n) == n <= PageSize

\* The last page is empty or has less than count records.
Short(n) == n < PageSize

CanRequest(r) == phase[r] = "running" /\ page[r] = {} /\ ~last[r]

FetchPage(r) ==
    /\ CanRequest(r)
    /\ ~Tickets
    /\ page' = [page EXCEPT ![r] = PageAt(r)]
    /\ pos' = [pos EXCEPT ![r] = @ + PageSize]
    /\ last' = [last EXCEPT ![r] = Short(Cardinality(PageAt(r)))]
    /\ at' = [at EXCEPT ![r] = clock]
    /\ UNCHANGED <<connector, clock, born, phase, window, began, listed,
                   unread, yielded>>

\* A response without items: the list is taken to end here.
CutShort(r) ==
    /\ CanRequest(r)
    /\ ~Tickets
    /\ connector \in Withholding
    /\ last' = [last EXCEPT ![r] = TRUE]
    /\ at' = [at EXCEPT ![r] = clock]
    /\ unread' = [unread EXCEPT ![r] = @ \cup (Rest(r) \ yielded[r])]
    /\ UNCHANGED <<connector, clock, born, phase, window, began, listed, pos,
                   page, yielded>>

NextDay(r) ==
    /\ CanRequest(r)
    /\ Tickets
    /\ pos' = [pos EXCEPT ![r] = @ + 1]
    /\ last' = [last EXCEPT ![r] = pos[r] >= LastDay(window[r], began[r])]
    /\ at' = [at EXCEPT ![r] = clock]
    /\ UNCHANGED <<connector, clock, born, phase, window, began, listed, yielded>>

OfDay(r) == {x \in DOMAIN born : DayOf(born[x]) = pos[r]}

FetchDay(r) ==
    /\ NextDay(r)
    /\ page' = [page EXCEPT ![r] = OfDay(r)]
    /\ UNCHANGED unread

\* A response that is not a list: a warning, and on to the next day.
SkipDay(r) ==
    /\ NextDay(r)
    /\ connector \in Withholding
    /\ unread' = [unread EXCEPT ![r] = @ \cup OfDay(r)]
    /\ UNCHANGED page

\* The record that the generator takes from its page: the list is read in order.
IsNext(r, x) == x \in page[r] /\ \A y \in page[r] : y <= x

Yield(r, x) ==
    /\ phase[r] = "running"
    /\ IsNext(r, x)
    /\ page' = [page EXCEPT ![r] = @ \ {x}]
    /\ yielded' = [yielded EXCEPT ![r] = @ \cup {x}]
    /\ UNCHANGED <<connector, clock, born, phase, window, began, listed, pos,
                   last, at, unread>>

Exhausted(r) == phase[r] = "running" /\ page[r] = {} /\ last[r]

\* The generator is dropped with its locals, at its end or by an exception.
End(r, status) ==
    /\ phase[r] = "running"
    /\ phase' = [phase EXCEPT ![r] = status]
    /\ page' = [page EXCEPT ![r] = {}]
    /\ pos' = [pos EXCEPT ![r] = 0]
    /\ last' = [last EXCEPT ![r] = FALSE]
    /\ at' = [at EXCEPT ![r] = 0]
    /\ UNCHANGED <<connector, clock, born, window, began, listed, unread, yielded>>

-----------------------------------------------------------------------------
\* Properties

\* The records that a run owes to its window: those that existed when it began,
\* except what its source withheld: a day that Kapture does not answer with a
\* list, the rest of a list that Razorpay answers without items.
Owed(r) == {x \in 1 .. listed[r] :
              /\ Extracts(connector, window[r], began[r], born[x])
              /\ x \notin unread[r]}

\* A run that succeeds has yielded every record of its window, although the
\* lists move while it pages through them: records that appear push others to a
\* later page, never past the next request. What the source withheld is lost, and
\* the success moves the cursor past it (tickets_connector.py, "Unexpected
\* response shape"; orders_connector.py and customers_connector.py, "items").
NothingMissed ==
    \A r \in Run : phase[r] = "success" => Owed(r) \subseteq yielded[r]
=============================================================================
