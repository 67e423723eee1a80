--------------------------- MODULE IncrementalSync ---------------------------
(***************************************************************************)
(* What Turbocat promises about its data, with no queue, agent or message: *)
(* records appear in the sources, copies of them appear in the             *)
(* destination, and a pipeline's cursor only ever takes a value up to      *)
(* which the destination is complete.  The cursor may move back, it may    *)
(* lag, and what is in the destination stays there.                        *)
(***************************************************************************)
EXTENDS Integers

CONSTANTS
    Pipeline,
    Record,
    Owed,       \* the records each pipeline has to deliver
    LastTick,   \* bound of the clock
    NoTime

VARIABLES now, created, dest, cursor

isVars == <<now, created, dest, cursor>>

ISInit ==
    /\ now = 0
    /\ created = [x \in Record |-> NoTime]
    /\ dest = {}
    /\ cursor = [p \in Pipeline |-> NoTime]

Pass ==
    /\ now < LastTick
    /\ now' = now + 1
    /\ UNCHANGED <<created, dest, cursor>>

Appear(x) ==
    /\ created[x] = NoTime
    /\ created' = [created EXCEPT ![x] = now]
    /\ UNCHANGED <<now, dest, cursor>>

\* Only what exists is copied; it may be copied again.
Copy(records) ==
    /\ \A x \in records : created[x] # NoTime
    /\ dest' = dest \cup records
    /\ UNCHANGED <<now, created, cursor>>

CompleteUpTo(p, t) ==
    \A x \in Owed[p] : created[x] # NoTime /\ created[x] < t => x \in dest

Advance(p, t) ==
    /\ t <= now
    /\ CompleteUpTo(p, t)
    /\ cursor' = [cursor EXCEPT ![p] = t]
    /\ UNCHANGED <<now, created, dest>>

ISNext ==
    \/ Pass
    \/ \E x \in Record : Appear(x)
    \/ \E records \in SUBSET Record : Copy(records)
    \/ \E p \in Pipeline, t \in 0 .. LastTick : Advance(p, t)

ISSpec == ISInit /\ [][ISNext]_isVars
=============================================================================
