--------------------------------- MODULE Sync ---------------------------------
(***************************************************************************)
(* What a call of sync() promises to the worker that makes it, with no     *)
(* page, batch or row: the window selects records of the source, each of   *)
(* them is loaded or skipped as malformed, and the call returns a success  *)
(* when none is left.  Turbocat sees its syncs this way; SyncRun is shown  *)
(* to implement it.                                                        *)
(***************************************************************************)
EXTENDS Integers

CONSTANTS
    ConnectorName,
    Extracts(_, _, _, _),   \* what a connector extracts for a window and a clock
    Loadable(_),            \* the connectors whose rows the destination takes
    DayOf(_),
    NoTime,
    Run,        \* calls of sync()
    Window,     \* the windows they may be called with
    Record,
    Malformed,  \* the records of each connector that validate() skips
    Withholding, \* the connectors whose source may answer without its records
    LastTick    \* bound of the clock

VARIABLES
    connector, clock,
    created,    \* when each record appeared in the source
    phase,      \* each run: idle, running, success or error
    window, began,
    todo,       \* what each run has still to fetch or load
    dest        \* the records in the destination table

runs == <<phase, window, began, todo>>
syVars == <<connector, clock, created, runs, dest>>

SYInit ==
    /\ connector \in ConnectorName
    /\ clock = 0
    /\ created = [x \in Record |-> NoTime]
    /\ phase = [r \in Run |-> "idle"]
    /\ window = [r \in Run |-> [start |-> NoTime, end |-> NoTime]]
    /\ began = [r \in Run |-> 0]
    /\ todo = [r \in Run |-> {}]
    /\ dest = {}

Pass ==
    /\ clock < LastTick
    /\ clock' = clock + 1
    /\ UNCHANGED <<connector, created, runs, dest>>

Appears(x) ==
    /\ created[x] = NoTime
    /\ created' = [created EXCEPT ![x] = clock]
    /\ UNCHANGED <<connector, clock, runs, dest>>

\* What a window selects in a call that begins at t.
Selected(w, t) ==
    {x \in Record : created[x] # NoTime /\ Extracts(connector, w, t, created[x])}

Call(r, w) ==
    /\ phase[r] = "idle"
    /\ phase' = [phase EXCEPT ![r] = "running"]
    /\ window' = [window EXCEPT ![r] = w]
    /\ began' = [began EXCEPT ![r] = clock]
    /\ todo' = [todo EXCEPT ![r] = Selected(w, clock)]
    /\ UNCHANGED <<connector, clock, created, dest>>

\* Some records of the window reach the table, but for the malformed ones. What
\* appeared since the call may be among them.
Takes(r, records) ==
    /\ phase[r] = "running"
    /\ records \subseteq Selected(window[r], began[r])
    /\ Loadable(connector) \/ records \subseteq Malformed[connector]
    /\ dest' = dest \cup (records \ Malformed[connector])

Load(r, records) ==
    /\ Takes(r, records)
    /\ todo' = [todo EXCEPT ![r] = @ \ records]
    /\ UNCHANGED <<connector, clock, created, phase, window, began>>

\* The one way to owe less is that the source withholds records: a day of
\* tickets, or the rest of a list. The run does not tell.
PassOver(r, records) ==
    /\ phase[r] = "running"
    /\ connector \in Withholding
    /\ records \subseteq todo[r]
    /\ connector = "kapture_tickets" =>
         \A x \in records, y \in todo[r] :
           y \in records <=> DayOf(created[y]) = DayOf(created[x])
    /\ todo' = [todo EXCEPT ![r] = @ \ records]
    /\ UNCHANGED <<connector, clock, created, phase, window, began, dest>>

Succeed(r) ==
    /\ phase[r] = "running"
    /\ todo[r] = {}
    /\ phase' = [phase EXCEPT ![r] = "success"]
    /\ UNCHANGED <<connector, clock, created, window, began, todo, dest>>

\* A run may fail at any point, even while the table takes its last batch.
Fail(r, records) ==
    /\ Takes(r, records)
    /\ phase' = [phase EXCEPT ![r] = "error"]
    /\ todo' = [todo EXCEPT ![r] = {}]
    /\ UNCHANGED <<connector, clock, created, window, began>>

SYNext ==
    \/ Pass
    \/ \E x \in Record : Appears(x)
    \/ \E r \in Run :
         \/ \E w \in Window : Call(r, w)
         \/ \E records \in SUBSET Record :
              Load(r, records) \/ PassOver(r, records) \/ Fail(r, records)
         \/ Succeed(r)

SYSpec == SYInit /\ [][SYNext]_syVars
=============================================================================
