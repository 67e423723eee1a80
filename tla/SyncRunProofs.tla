---------------------------- MODULE SyncRunProofs ----------------------------
(***************************************************************************)
(* A run that succeeds has put every valid record of its window into the   *)
(* table, for any number of runs and records, any size of pages and        *)
(* batches, lists that grow while they are paged through, and failures at  *)
(* any point; the counters of its result add up, and a row of the table is *)
(* not replaced by an older copy unless runs overlap.                      *)
(***************************************************************************)
EXTENDS SyncRun, RowsProofs, FiniteSetTheorems

-----------------------------------------------------------------------------
\* Types

\* The last row of each id in a batch is what Merge chooses.
HasRow(rows, x) == \E i \in DOMAIN rows : rows[i].id = x

HasLast(rows, x) ==
    \E i \in DOMAIN rows :
        rows[i].id = x /\ \A j \in DOMAIN rows : rows[j].id = x => j <= i

BatchesHaveLast ==
    \A r \in Run, x \in Record : HasRow(batch[r], x) => HasLast(batch[r], x)

TypeInv == SRTypeOK /\ BatchesHaveLast

\* LastOf is a row of the batch, and no later one has its id.
LEMMA LastOfRow ==
    ASSUME NEW rows \in Seq(Row), NEW x \in Record, HasLast(rows, x)
    PROVE  /\ LastOf(rows, x) \in Row
           /\ LastOf(rows, x).id = x
           /\ \E i \in DOMAIN rows :
                /\ LastOf(rows, x) = rows[i]
                /\ \A j \in DOMAIN rows : rows[j].id = x => j <= i
<1>1. \A i \in DOMAIN rows : rows[i] \in Row
  OBVIOUS
<1> QED
  BY <1>1 DEF HasLast, LastOf

\* A merge leaves a row of each id, or none.
LEMMA MergeType ==
    ASSUME NEW rows \in Seq(Row), table \in [Record -> Row \cup {NoRow}],
           \A x \in Record : HasRow(rows, x) => HasLast(rows, x)
    PROVE  Merge(rows) \in [Record -> Row \cup {NoRow}]
<1>1. ASSUME NEW x \in Record PROVE Merge(rows)[x] \in Row \cup {NoRow}
  BY <1>1, LastOfRow DEF Merge, HasRow
<1> QED
  BY <1>1 DEF Merge

\* Append keeps the last rows of a batch.
LEMMA AppendHasLast ==
    ASSUME NEW rows \in Seq(Row), NEW row \in Row, NEW x \in Record,
           HasRow(rows, x) => HasLast(rows, x), HasRow(Append(rows, row), x)
    PROVE  HasLast(Append(rows, row), x)
<1> DEFINE more == Append(rows, row)
<1>1. /\ Len(more) = Len(rows) + 1 /\ DOMAIN more = 1 .. Len(more)
      /\ DOMAIN rows = 1 .. Len(rows) /\ Len(rows) \in Nat
      /\ \A i \in DOMAIN rows : more[i] = rows[i]
      /\ more[Len(more)] = row
  OBVIOUS
<1> HIDE DEF more
<1>2. CASE row.id = x
  <2>1. more[Len(more)].id = x /\ \A j \in DOMAIN more : j <= Len(more)
    BY <1>1, <1>2
  <2> QED
    BY <2>1, <1>1 DEF HasLast, more
<1>3. CASE row.id # x
  <2>1. HasRow(rows, x)
    BY <1>1, <1>3 DEF HasRow, more
  <2>2. PICK i \in DOMAIN rows :
          rows[i].id = x /\ \A j \in DOMAIN rows : rows[j].id = x => j <= i
    BY <2>1 DEF HasLast
  <2>3. more[i].id = x /\ \A j \in DOMAIN more : more[j].id = x => j <= i
    BY <2>2, <1>1, <1>3
  <2> QED
    BY <2>2, <2>3, <1>1 DEF HasLast, more
<1> QED
  BY <1>2, <1>3

\* No run, no record and no row has the wrong type at first.
LEMMA TypesInit == SRInit => TypeInv
<1> SUFFICES ASSUME SRInit PROVE TypeInv
  OBVIOUS
<1> USE SyncRunAssumption, PagingAssumption
<1>1. born = <<>> /\ \A r \in Run : batch[r] = <<>>
  BY DEF SRInit, PagingInit
<1>2. BatchesHaveLast
  BY <1>1 DEF BatchesHaveLast, HasRow
<1>3. PagingTypeOK
  BY <1>1 DEF SRInit, PagingInit, PagingTypeOK
<1>4. batch \in [Run -> Seq(Row)] /\ \A r \in Run : Len(batch[r]) <= BatchSize
  BY <1>1 DEF SRInit
<1>5. SRTypeOK
  BY <1>3, <1>4 DEF SRInit, SRTypeOK
<1> QED
  BY <1>2, <1>5 DEF TypeInv

\* The records that exist have numbers within the bound.
LEMMA BornAreRecords == PagingTypeOK => DOMAIN born \subseteq Record
<1> SUFFICES ASSUME PagingTypeOK PROVE DOMAIN born \subseteq Record
  OBVIOUS
<1>1. Len(born) \in Nat /\ DOMAIN born = 1 .. Len(born)
  BY DEF PagingTypeOK
<1>2. Len(born) <= MaxRecords /\ MaxRecords \in Nat
  BY PagingAssumption DEF PagingTypeOK
<1> QED
  BY <1>1, <1>2 DEF Record

\* The steps of the clock, the source and the generators.
LEMMA PagingTypesStep ==
    ASSUME PagingTypeOK,
           \/ UNCHANGED pagingVars
           \/ Tick
           \/ Appear
           \/ \E r \in Run :
                \/ \E w \in Window : Begin(r, w)
                \/ FetchPage(r)
                \/ CutShort(r)
                \/ FetchDay(r)
                \/ SkipDay(r)
                \/ \E x \in page[r] : Yield(r, x)
                \/ \E s \in {"success", "error"} : End(r, s)
    PROVE  PagingTypeOK'
<1> USE PagingAssumption DEF PagingTypeOK
<1>1. CASE UNCHANGED pagingVars
  BY <1>1 DEF pagingVars, runVars
<1>2. CASE Tick
  BY <1>2 DEF Tick, runVars
<1>3. CASE Appear
  <2>1. born' \in Seq(0 .. MaxClock) /\ Len(born') <= MaxRecords
    BY <1>3 DEF Appear
  <2> QED
    BY <1>3, <2>1 DEF Appear, runVars
<1>4. ASSUME NEW r \in Run, NEW w \in Window, Begin(r, w) PROVE PagingTypeOK'
  <2>1. w \in [start : Int \cup {NoTime}, end : Int \cup {NoTime}]
    OBVIOUS
  <2>2. FirstDay(w, clock) \in Int
    BY <2>1, ExtractionAssumption DEF FirstDay, DayOf
  <2>3. pos' \in [Run -> Int] /\ last' \in [Run -> BOOLEAN]
    BY <1>4, <2>2 DEF Begin
  <2> QED
    BY <1>4, <2>3 DEF Begin
<1>5. ASSUME NEW r \in Run, FetchPage(r) PROVE PagingTypeOK'
  <2>0. DOMAIN born \subseteq Record
    BY BornAreRecords
  <2>1. PageAt(r) \in SUBSET Record
    BY <2>0, Zenon DEF PageAt, Rest, Listing
  <2> QED
    BY <1>5, <2>1 DEF FetchPage, Short
<1>6. ASSUME NEW r \in Run, FetchDay(r) \/ SkipDay(r) PROVE PagingTypeOK'
  <2>0. DOMAIN born \subseteq Record
    BY BornAreRecords
  <2>1. OfDay(r) \in SUBSET Record
    BY <2>0, Zenon DEF OfDay
  <2>2. page' \in [Run -> SUBSET Record]
    BY <1>6, <2>1 DEF FetchDay, SkipDay
  <2>3. unread[r] \cup OfDay(r) \in SUBSET Record
    BY <2>1
  <2>4. unread' \in [Run -> SUBSET Record]
    BY <1>6, <2>3 DEF FetchDay, SkipDay
  <2>5. NextDay(r)
    BY <1>6 DEF FetchDay, SkipDay
  <2>6. pos' \in [Run -> Int] /\ last' \in [Run -> BOOLEAN] /\ at' \in [Run -> 0 .. MaxClock]
    BY <2>5 DEF NextDay
  <2> QED
    BY <2>2, <2>4, <2>5, <2>6 DEF NextDay
<1>7. ASSUME NEW r \in Run, NEW x \in page[r], Yield(r, x) PROVE PagingTypeOK'
  BY <1>7 DEF Yield
<1>8. ASSUME NEW r \in Run, NEW s \in {"success", "error"}, End(r, s)
      PROVE  PagingTypeOK'
  BY <1>8 DEF End
<1>9. ASSUME NEW r \in Run, CutShort(r) PROVE PagingTypeOK'
  <2>0. DOMAIN born \subseteq Record
    BY BornAreRecords
  <2>1. Rest(r) \ yielded[r] \in SUBSET Record
    BY <2>0, Zenon DEF Rest, Listing
  <2>2. unread[r] \cup (Rest(r) \ yielded[r]) \in SUBSET Record
    BY <2>1
  <2>3. unread' \in [Run -> SUBSET Record] /\ last' \in [Run -> BOOLEAN]
        /\ at' \in [Run -> 0 .. MaxClock]
    BY <1>9, <2>2 DEF CutShort
  <2> QED
    BY <1>9, <2>3 DEF CutShort
<1> QED
  BY <1>1, <1>2, <1>3, <1>4, <1>5, <1>6, <1>7, <1>8, <1>9

\* A batch only grows by one row at its end, or is emptied.
LEMMA BatchStep ==
    ASSUME TypeInv, NEW r \in Run,
           \/ batch' = batch
           \/ batch' = [batch EXCEPT ![r] = <<>>]
           \/ \E row \in Row : /\ ~Full(r)
                               /\ batch' = [batch EXCEPT ![r] = Append(@, row)]
    PROVE  /\ batch' \in [Run -> Seq(Row)]
           /\ \A q \in Run : Len(batch'[q]) <= BatchSize
           /\ BatchesHaveLast'
<1>1. batch \in [Run -> Seq(Row)] /\ \A q \in Run : Len(batch[q]) <= BatchSize
  BY DEF TypeInv, SRTypeOK
<1>2. BatchesHaveLast
  BY DEF TypeInv
<1>3. CASE batch' = batch
  BY <1>1, <1>2, <1>3 DEF BatchesHaveLast, HasRow, HasLast
<1>4. CASE batch' = [batch EXCEPT ![r] = <<>>]
  <2>1. \A q \in Run : batch'[q] = batch[q] \/ batch'[q] = <<>>
    BY <1>1, <1>4
  <2> QED
    BY <1>1, <1>2, <1>4, <2>1, SyncRunAssumption
       DEF BatchesHaveLast, HasRow, HasLast
<1>5. ASSUME NEW row \in Row, ~Full(r),
             batch' = [batch EXCEPT ![r] = Append(@, row)]
      PROVE  /\ batch' \in [Run -> Seq(Row)]
             /\ \A q \in Run : Len(batch'[q]) <= BatchSize
             /\ BatchesHaveLast'
  <2>1. batch' \in [Run -> Seq(Row)] /\ \A q \in Run : Len(batch'[q]) <= BatchSize
    BY <1>1, <1>5, SyncRunAssumption DEF Full
  <2>2. \A q \in Run : batch'[q] = batch[q] \/ batch'[q] = Append(batch[q], row)
    BY <1>1, <1>5
  <2>3. ASSUME NEW q \in Run, NEW y \in Record, HasRow(batch'[q], y)
        PROVE  HasLast(batch'[q], y)
    <3>1. batch[q] \in Seq(Row)
      BY <1>1
    <3>2. HasRow(batch[q], y) => HasLast(batch[q], y)
      BY <1>2 DEF BatchesHaveLast
    <3> QED
      BY <2>2, <2>3, <3>1, <3>2, AppendHasLast
  <2>4. BatchesHaveLast'
    BY <2>3 DEF BatchesHaveLast, HasRow, HasLast
  <2> QED
    BY <2>1, <2>4
<1> QED
  BY <1>3, <1>4, <1>5

\* What a step changes keeps its type.
LEMMA TypesStep == TypeInv /\ [SRNext]_srVars => TypeInv'
<1> SUFFICES ASSUME TypeInv, [SRNext]_srVars PROVE TypeInv'
  OBVIOUS
<1>t. SRTypeOK /\ PagingTypeOK
  BY DEF TypeInv, SRTypeOK
<1>1. CASE UNCHANGED srVars
  BY <1>1, <1>t
     DEF srVars, pagingVars, runVars, syncVars, counters, TypeInv, SRTypeOK,
         PagingTypeOK, BatchesHaveLast, HasRow, HasLast
<1>2. CASE (Tick \/ Appear) /\ UNCHANGED syncVars
  <2>1. PagingTypeOK'
    BY <1>2, <1>t, PagingTypesStep
  <2> QED
    BY <1>2, <2>1
       DEF syncVars, counters, TypeInv, SRTypeOK, BatchesHaveLast, HasRow, HasLast
<1>3. ASSUME NEW r \in Run, NEW w \in Window, Start(r, w) PROVE TypeInv'
  <2>1. PagingTypeOK' /\ batch' = batch
    BY <1>3, <1>t, PagingTypesStep DEF Start
  <2>2. BatchesHaveLast'
    BY <2>1, BatchStep
  <2> QED
    BY <1>3, <1>t, <2>1, <2>2 DEF Start, counters, TypeInv, SRTypeOK
<1>4. ASSUME NEW r \in Run, Request(r) PROVE TypeInv'
  <2>1. PagingTypeOK' /\ batch' = batch
    BY <1>4, <1>t, PagingTypesStep DEF Request, syncVars
  <2>2. BatchesHaveLast'
    BY <2>1, BatchStep
  <2> QED
    BY <1>4, <1>t, <2>1, <2>2 DEF Request, syncVars, counters, TypeInv, SRTypeOK
<1>5. ASSUME NEW r \in Run, NEW x \in page[r], Consume(r, x) PROVE TypeInv'
  <2> DEFINE row == [id |-> x, seen |-> at[r], at |-> clock]
  <2>1. row \in Row
    BY <1>t DEF Row, PagingTypeOK
  <2>2. \/ batch' = batch
        \/ ~Full(r) /\ batch' = [batch EXCEPT ![r] = Append(@, row)]
    BY <1>5 DEF Consume
  <2>3. /\ batch' \in [Run -> Seq(Row)]
        /\ \A q \in Run : Len(batch'[q]) <= BatchSize
        /\ BatchesHaveLast'
    BY <2>1, <2>2, BatchStep
  <2>4. PagingTypeOK'
    BY <1>5, <1>t, PagingTypesStep DEF Consume
  <2>5. extracted' \in [Run -> Nat] /\ failed' \in [Run -> Nat]
    BY <1>5, <1>t DEF Consume, SRTypeOK
  <2>6. x \in Record
    BY <1>t DEF PagingTypeOK
  <2>7. handled[r] \cup {x} \in SUBSET Record
    BY <1>t, <2>6 DEF SRTypeOK
  <2>8. handled' = handled \/ handled' = [handled EXCEPT ![r] = @ \cup {x}]
    BY <1>5 DEF Consume
  <2>9. handled' \in [Run -> SUBSET Record]
    BY <1>t, <2>7, <2>8 DEF SRTypeOK
  <2> QED
    BY <1>5, <1>t, <2>3, <2>4, <2>5, <2>9 DEF Consume, TypeInv, SRTypeOK
<1>6. ASSUME NEW r \in Run, Insert(r), Flush(r) \/ InsertUnconfirmed(r)
      PROVE  TypeInv'
  <2>1. table' \in [Record -> Row \cup {NoRow}]
    BY <1>6, <1>t, MergeType DEF Insert, TypeInv, BatchesHaveLast, SRTypeOK
  <2>2. /\ batch' \in [Run -> Seq(Row)]
        /\ \A q \in Run : Len(batch'[q]) <= BatchSize
        /\ BatchesHaveLast'
    BY <1>6, BatchStep DEF Insert
  <2>3. PagingTypeOK'
    BY <1>6, <1>t, PagingTypesStep DEF Flush, InsertUnconfirmed
  <2>4. Len(batch[r]) \in Nat
    BY <1>t DEF SRTypeOK
  <2>5. stored' \in [Run -> Nat]
    BY <1>6, <1>t, <2>4 DEF Insert, SRTypeOK
  <2>6. loaded' = loaded \/ loaded' = [loaded EXCEPT ![r] = loaded[r] + Len(batch[r])]
    BY <1>6 DEF Flush, InsertUnconfirmed, Confirmed, counters
  <2>7. loaded' \in [Run -> Nat]
    <3>1. loaded \in [Run -> Nat] /\ loaded[r] + Len(batch[r]) \in Nat
      BY <1>t, <2>4 DEF SRTypeOK
    <3> QED
      BY <2>6, <3>1
  <2>8. UNCHANGED <<extracted, failed, mixed>>
    BY <1>6 DEF Flush, InsertUnconfirmed, counters
  <2>9. handled' \in [Run -> SUBSET Record]
    <3>1. batch[r] \in Seq(Row) /\ \A i \in DOMAIN batch[r] : batch[r][i] \in Row
      BY <1>t DEF SRTypeOK
    <3>2. Ids(batch[r]) \subseteq Record
      BY <3>1 DEF Ids, Row
    <3> QED
      BY <1>6, <1>t, <3>2 DEF Insert, SRTypeOK
  <2> QED
    BY <1>t, <2>1, <2>2, <2>3, <2>5, <2>7, <2>8, <2>9 DEF TypeInv, SRTypeOK
<1>7. ASSUME NEW r \in Run, Finish(r) PROVE TypeInv'
  <2>1. PagingTypeOK' /\ batch' = batch
    BY <1>7, <1>t, PagingTypesStep DEF Finish, syncVars
  <2>2. BatchesHaveLast'
    BY <2>1, BatchStep
  <2> QED
    BY <1>7, <1>t, <2>1, <2>2 DEF Finish, syncVars, counters, TypeInv, SRTypeOK
<1>8. ASSUME NEW r \in Run, Break(r), UNCHANGED <<table, stored, handled>> PROVE TypeInv'
  <2>1. PagingTypeOK' /\ batch' = [batch EXCEPT ![r] = <<>>]
    BY <1>8, <1>t, PagingTypesStep DEF Break
  <2>2. /\ batch' \in [Run -> Seq(Row)]
        /\ \A q \in Run : Len(batch'[q]) <= BatchSize
        /\ BatchesHaveLast'
    BY <2>1, BatchStep
  <2> QED
    BY <1>8, <1>t, <2>1, <2>2 DEF Break, counters, TypeInv, SRTypeOK
<1> QED
  BY <1>1, <1>2, <1>3, <1>4, <1>5, <1>6, <1>7, <1>8
     DEF SRNext, Flush, InsertUnconfirmed, RunFails, TransformRaises, Refused

\* The types are kept, whatever the sizes of pages and batches.
THEOREM TypesHold == SRSpec => []SRTypeOK
<1>1. TypeInv => SRTypeOK
  BY DEF TypeInv
<1> QED
  BY <1>1, TypesInit, TypesStep, PTL DEF SRSpec

-----------------------------------------------------------------------------
\* Counters

\* The counters of a result are about the rows that were extracted, and after an
\* error they claim no more than the table got.
LEMMA CountsStep == TypeInv /\ CountsAddUp /\ [SRNext]_srVars => CountsAddUp'
<1> SUFFICES ASSUME TypeInv, CountsAddUp, [SRNext]_srVars PROVE CountsAddUp'
  OBVIOUS
<1> USE DEF CountsAddUp
<1>t. /\ \A q \in Run : /\ extracted[q] \in Nat /\ loaded[q] \in Nat
                      /\ failed[q] \in Nat /\ stored[q] \in Nat
                      /\ batch[q] \in Seq(Row) /\ Len(batch[q]) \in Nat
      /\ extracted \in [Run -> Nat] /\ loaded \in [Run -> Nat]
      /\ failed \in [Run -> Nat] /\ stored \in [Run -> Nat]
      /\ batch \in [Run -> Seq(Row)]
      /\ phase \in [Run -> {"idle", "running", "success", "error"}]
  BY DEF TypeInv, SRTypeOK, PagingTypeOK
<1>1. ASSUME UNCHANGED <<batch, counters, stored>>,
             \A q \in Run : phase'[q] # "error" => phase[q] # "error"
      PROVE  CountsAddUp'
  BY <1>1, <1>t DEF counters
<1>2. ASSUME NEW r \in Run, NEW x \in page[r], Consume(r, x) PROVE CountsAddUp'
  <2> DEFINE row == [id |-> x, seen |-> at[r], at |-> clock]
  <2>1. row \in Row
    BY DEF Row, TypeInv, SRTypeOK, PagingTypeOK
  <2>2. Len(Append(batch[r], row)) = Len(batch[r]) + 1
    BY <1>t, <2>1
  <2>3. /\ UNCHANGED <<phase, loaded, stored>>
        /\ extracted' = [extracted EXCEPT ![r] = @ + 1]
        /\ \/ /\ batch' = [batch EXCEPT ![r] = Append(@, row)]
              /\ UNCHANGED failed
           \/ /\ failed' = [failed EXCEPT ![r] = @ + 1]
              /\ UNCHANGED batch
    BY <1>2 DEF Consume, Yield
  <2> DEFINE Adds(q) == /\ phase[q] # "error" =>
                             /\ extracted[q] = loaded[q] + failed[q] + Len(batch[q])
                             /\ loaded[q] = stored[q]
                        /\ loaded[q] <= stored[q]
  <2>4. ASSUME NEW q \in Run, q # r PROVE Adds(q)'
    BY <1>t, <2>3, <2>4
  <2>5. /\ DOMAIN extracted = Run /\ DOMAIN loaded = Run /\ DOMAIN failed = Run
        /\ DOMAIN stored = Run /\ DOMAIN batch = Run /\ DOMAIN phase = Run
        /\ DOMAIN failed' = Run /\ DOMAIN batch' = Run
    BY <1>t, <2>3
  <2>6. failed'[r] + Len(batch'[r]) = failed[r] + Len(batch[r]) + 1
    BY <1>t, <2>2, <2>3
  <2>7. /\ extracted[r] \in Nat /\ loaded[r] \in Nat /\ failed[r] \in Nat
        /\ Len(batch[r]) \in Nat /\ failed'[r] \in Nat /\ Len(batch'[r]) \in Nat
    BY <1>t, <2>2, <2>3
  <2>8. ASSUME phase[r] # "error"
        PROVE  extracted'[r] = loaded'[r] + failed'[r] + Len(batch'[r])
    <3>1. extracted[r] = loaded[r] + failed[r] + Len(batch[r])
      BY <2>8
    <3>2. loaded[r] + failed[r] + Len(batch[r]) + 1
            = loaded[r] + failed'[r] + Len(batch'[r])
      <4> HIDE DEF CountsAddUp
      <4> QED
        BY <2>5, <2>6, <2>7
    <3>3. extracted'[r] = extracted[r] + 1 /\ loaded' = loaded
      BY <1>t, <2>3
    <3> QED
      BY <2>5, <3>1, <3>2, <3>3
  <2>9. Adds(r)'
    BY <2>3, <2>8
  <2> QED
    BY <2>4, <2>9
<1>3. ASSUME NEW r \in Run, Flush(r) PROVE CountsAddUp'
  <2>1. /\ stored' = [stored EXCEPT ![r] = @ + Len(batch[r])]
        /\ batch' = [batch EXCEPT ![r] = <<>>]
        /\ loaded' = [loaded EXCEPT ![r] = loaded[r] + Len(batch[r])]
        /\ UNCHANGED <<extracted, failed, phase>>
    BY <1>3 DEF Flush, Insert, Confirmed, pagingVars, runVars
  <2> QED
    BY <2>1, <1>t
<1>4. ASSUME NEW r \in Run, End(r, "error"), batch' = [batch EXCEPT ![r] = <<>>],
             UNCHANGED counters,
             \/ UNCHANGED stored
             \/ stored' = [stored EXCEPT ![r] = @ + Len(batch[r])]
      PROVE  CountsAddUp'
  BY <1>4, <1>t DEF End, counters
<1>5. CASE UNCHANGED srVars
  BY <1>1, <1>5 DEF srVars, pagingVars, runVars, syncVars
<1>6. CASE (Tick \/ Appear) /\ UNCHANGED syncVars
  BY <1>1, <1>6 DEF Tick, Appear, runVars, syncVars
<1>7. ASSUME NEW r \in Run, NEW w \in Window, Start(r, w) PROVE CountsAddUp'
  BY <1>1, <1>7, <1>t DEF Start, Begin
<1>8. ASSUME NEW r \in Run, Request(r) PROVE CountsAddUp'
  BY <1>1, <1>8 DEF Request, FetchPage, CutShort, FetchDay, SkipDay, NextDay, syncVars
<1>9. ASSUME NEW r \in Run, Finish(r) PROVE CountsAddUp'
  BY <1>1, <1>9, <1>t DEF Finish, End, syncVars
<1> QED
  BY <1>2, <1>3, <1>4, <1>5, <1>6, <1>7, <1>8, <1>9
     DEF SRNext, Insert, InsertUnconfirmed, RunFails, TransformRaises, Refused,
         Break

\* The counters of every result add up, however its run ends.
THEOREM CountsHold == SRSpec => []CountsAddUp
<1>1. SRInit => CountsAddUp
  BY DEF SRInit, PagingInit, CountsAddUp
<1> QED
  BY <1>1, TypesInit, TypesStep, CountsStep, PTL DEF SRSpec

-----------------------------------------------------------------------------
\* Paging

\* Records are numbered in the order in which they were created.
Sorted ==
    /\ \A i, j \in DOMAIN born : i <= j => born[i] <= born[j]
    /\ \A i \in DOMAIN born : born[i] <= clock
    /\ \A r \in Run : listed[r] <= Len(born)

\* A later request will return the record.
Waits(r, x) ==
    /\ ~last[r]
    /\ IF Tickets THEN pos[r] <= DayOf(born[x])
                  ELSE pos[r] <= Cardinality(Ahead(r, x))

\* The records that a run owes and has not yielded are before it.
PagesInv ==
    /\ Sorted
    /\ \A r \in Run : ~Tickets => pos[r] >= 0
    /\ \A r \in Run : phase[r] = "running" =>
         \A x \in Owed(r) : x \in yielded[r] \/ x \in page[r] \/ Waits(r, x)
    /\ NothingMissed

\* What a run owes is in the answer to its requests.
LEMMA OwedListed ==
    ASSUME PagingTypeOK, Sorted, NEW r \in Run, NEW x \in Owed(r)
    PROVE  x \in DOMAIN born /\ x \in Listing(r)
<1>1. x \in 1 .. Len(born) /\ Extracts(connector, window[r], began[r], born[x])
  BY DEF Owed, Sorted, PagingTypeOK
<1> QED
  BY <1>1 DEF Listing, PagingTypeOK

\* The list of a Razorpay endpoint has no gaps in the order of creation.
LEMMA Convex ==
    ASSUME PagingTypeOK, Sorted, ~Tickets, NEW r \in Run,
           NEW x \in Listing(r), NEW y \in Listing(r), NEW z \in x .. y
    PROVE  z \in Listing(r)
<1>1. DOMAIN born = 1 .. Len(born) /\ Len(born) \in Nat
      /\ \A i \in DOMAIN born : born[i] \in Int
  BY PagingAssumption DEF PagingTypeOK
<1>2. x \in DOMAIN born /\ y \in DOMAIN born
  BY DEF Listing
<1>3. z \in DOMAIN born /\ x <= z /\ z <= y
  BY <1>1, <1>2
<1>4. born[x] <= born[z] /\ born[z] <= born[y]
  BY <1>2, <1>3 DEF Sorted
<1>5. window[r].start \in Int \cup {NoTime} /\ window[r].end \in Int \cup {NoTime}
  BY PagingAssumption DEF PagingTypeOK, NoWindow
<1>6. connector \in {"razorpay_orders", "razorpay_customers"}
  BY DEF PagingTypeOK, ConnectorName, Tickets
<1>7. Extracts(connector, window[r], began[r], born[z])
  <2>1. CASE connector = "razorpay_customers"
    BY <2>1 DEF Extracts
  <2>2. CASE connector = "razorpay_orders"
    <3>1. OrderInWindow(window[r], born[x]) /\ OrderInWindow(window[r], born[y])
      BY <2>2 DEF Listing, Extracts
    <3>2. OrderInWindow(window[r], born[z])
      BY <1>1, <1>2, <1>3, <1>4, <1>5, <3>1, TimesAssumption DEF OrderInWindow
    <3> QED
      BY <2>2, <3>2 DEF Extracts
  <2> QED
    BY <1>6, <2>1, <2>2
<1> QED
  BY <1>3, <1>7 DEF Listing

\* How many numbers follow a number up to another.
LEMMA IntervalCardinality ==
    ASSUME NEW a \in Int, NEW n \in Nat
    PROVE  IsFiniteSet(a + 1 .. a + n) /\ Cardinality(a + 1 .. a + n) = n
<1>1. a + 1 \in Int /\ a + n \in Int
  OBVIOUS
<1>2. /\ IsFiniteSet(a + 1 .. a + n)
      /\ Cardinality(a + 1 .. a + n)
           = IF a + 1 > a + n THEN 0 ELSE a + n - (a + 1) + 1
  BY <1>1, FS_Interval
<1> QED
  BY <1>2

\* A record with a page or more of newer ones before it is on none of the pages
\* so far, and the next page is full.
LEMMA FullPage ==
    ASSUME PagingTypeOK, Sorted, ~Tickets, NEW r \in Run, NEW x \in Listing(r),
           pos[r] >= 0, Cardinality(Ahead(r, x)) >= pos[r] + PageSize
    PROVE  Cardinality(PageAt(r)) >= PageSize
<1> DEFINE k == Cardinality(Ahead(r, x))
           m == x + k
<1>1. DOMAIN born = 1 .. Len(born) /\ Len(born) \in Nat
      /\ Listing(r) \subseteq DOMAIN born /\ pos[r] \in Int
      /\ PageSize \in Nat /\ PageSize > 0
  BY PagingAssumption DEF PagingTypeOK, Listing
<1>2. IsFiniteSet(DOMAIN born) /\ IsFiniteSet(Listing(r))
  <2>1. IsFiniteSet(DOMAIN born)
    BY <1>1, FS_Interval
  <2> QED
    BY <1>1, <2>1, FS_Subset
<1>3. \A y \in Int : IsFiniteSet(Ahead(r, y)) /\ Cardinality(Ahead(r, y)) \in Nat
  BY <1>1, <1>2, FS_Subset, FS_CardinalityType DEF Ahead
<1>4. x \in Int /\ k \in Nat
  BY <1>1, <1>3
<1>5. x + 1 .. m \subseteq Ahead(r, x)
  <2> SUFFICES ASSUME NEW i \in x + 1 .. m, i \notin Ahead(r, x) PROVE FALSE
    OBVIOUS
  <2>1. Ahead(r, x) \subseteq x + 1 .. i - 1
    <3> SUFFICES ASSUME NEW y \in Ahead(r, x), y >= i PROVE FALSE
      BY <1>1, <1>4 DEF Ahead
    <3>1. y \in Listing(r) /\ i \in x .. y
      BY <1>1, <1>4 DEF Ahead
    <3>2. i \in Listing(r)
      BY <3>1, Convex
    <3> QED
      BY <3>2, <1>4 DEF Ahead
  <2>2. Cardinality(x + 1 .. i - 1) = i - 1 - x /\ IsFiniteSet(x + 1 .. i - 1)
    <3>1. i - 1 - x \in Nat /\ i - 1 = x + (i - 1 - x)
      BY <1>4
    <3> QED
      BY <1>4, <3>1, IntervalCardinality
  <2>3. k <= i - 1 - x
    BY <2>1, <2>2, FS_Subset
  <2> QED
    BY <2>3, <1>4
<1>6. Ahead(r, x) = x + 1 .. m
  <2>1. Cardinality(x + 1 .. m) = k
    BY <1>4, IntervalCardinality
  <2> QED
    BY <1>3, <1>4, <1>5, <2>1, FS_Subset
<1>7. ASSUME NEW y \in x .. m
      PROVE  y \in Listing(r) /\ Cardinality(Ahead(r, y)) = m - y
  <2>1. y \in Listing(r)
    BY <1>4, <1>6 DEF Ahead
  <2>2. Ahead(r, y) = y + 1 .. m
    BY <1>1, <1>4, <1>6 DEF Ahead
  <2>3. m - y \in Nat /\ m = y + (m - y) /\ y \in Int
    BY <1>4
  <2>4. Cardinality(y + 1 .. y + (m - y)) = m - y
    BY <2>3, IntervalCardinality
  <2> QED
    BY <2>1, <2>2, <2>3, <2>4
<1>8. m - pos[r] - PageSize + 1 .. m - pos[r] \subseteq PageAt(r)
  BY <1>1, <1>4, <1>7 DEF PageAt, Rest
<1>9. Cardinality(m - pos[r] - PageSize + 1 .. m - pos[r]) = PageSize
  <2>1. /\ m - pos[r] - PageSize \in Int
        /\ m - pos[r] = (m - pos[r] - PageSize) + PageSize
    BY <1>1, <1>4
  <2> QED
    BY <1>1, <2>1, IntervalCardinality
<1>10. IsFiniteSet(PageAt(r))
  BY <1>2, FS_Subset DEF PageAt, Rest
<1>11. Cardinality(m - pos[r] - PageSize + 1 .. m - pos[r])
         <= Cardinality(PageAt(r))
  BY <1>8, <1>10, FS_Subset
<1> QED
  BY <1>9, <1>11

\* Nothing is listed at first.
LEMMA PagesInit == SRInit => PagesInv
  BY DEF SRInit, PagingInit, PagesInv, Sorted, NothingMissed

\* Time passes and records appear: what a run owes stays the same, and no record
\* gets nearer to the head of a list.
LEMMA PagesEnvironment ==
    ASSUME PagingTypeOK, PagesInv, Tick \/ Appear PROVE PagesInv'
<1>1. /\ UNCHANGED <<connector, runVars>>
      /\ Len(born) \in Nat /\ DOMAIN born = 1 .. Len(born)
      /\ \A i \in DOMAIN born : i \in DOMAIN born' /\ born'[i] = born[i]
      /\ Len(born) <= Len(born') /\ Len(born') \in Nat
      /\ DOMAIN born' = 1 .. Len(born')
  <2>1. CASE Tick
    BY <2>1 DEF Tick, runVars, PagingTypeOK
  <2>2. CASE Appear
    <3>1. born \in Seq(0 .. MaxClock) /\ clock \in 0 .. MaxClock
          /\ born' = Append(born, clock)
      BY <2>2 DEF Appear, PagingTypeOK
    <3> QED
      BY <2>2, <3>1 DEF Appear, runVars
  <2> QED
    BY <2>1, <2>2
<1>2. ASSUME NEW r \in Run PROVE Owed(r)' = Owed(r)
  <2>1. \A x \in 1 .. listed[r] : x \in DOMAIN born
    BY <1>1 DEF PagesInv, Sorted, PagingTypeOK
  <2> QED
    BY <1>1, <2>1 DEF Owed, runVars, Tickets
<1>3. ASSUME NEW r \in Run, NEW x \in Int, ~Tickets
      PROVE  Cardinality(Ahead(r, x)) <= Cardinality(Ahead(r, x)')
  <2>1. Ahead(r, x) \subseteq Ahead(r, x)'
    BY <1>1 DEF Ahead, Listing, runVars
  <2>2. IsFiniteSet(DOMAIN born')
    BY <1>1, FS_Interval
  <2>3. Ahead(r, x)' \subseteq DOMAIN born'
    BY DEF Ahead, Listing
  <2>4. IsFiniteSet(Ahead(r, x)')
    BY <2>2, <2>3, FS_Subset
  <2> QED
    BY <2>1, <2>4, FS_Subset
<1>4. Sorted'
  <2>1. CASE Tick
    BY <2>1, PagingAssumption DEF Tick, PagesInv, Sorted, PagingTypeOK, runVars
  <2>2. CASE Appear
    <3>1. \A i \in DOMAIN born' : i \in DOMAIN born \/ born'[i] = clock
      BY <2>2 DEF Appear, PagingTypeOK
    <3>2. \A i \in DOMAIN born' : i \notin DOMAIN born => i = Len(born')
      BY <2>2 DEF Appear, PagingTypeOK
    <3>3. clock' = clock /\ listed' = listed /\ clock \in Int
          /\ \A r \in Run : listed[r] \in Nat
      BY <2>2 DEF Appear, runVars, PagingTypeOK
    <3>4. \A i \in DOMAIN born' : born'[i] <= clock
      BY <1>1, <3>1, <3>3 DEF PagesInv, Sorted
    <3>5. ASSUME NEW i \in DOMAIN born', NEW j \in DOMAIN born', i <= j
          PROVE  born'[i] <= born'[j]
      <4>1. CASE j \in DOMAIN born
        BY <1>1, <3>5, <4>1 DEF PagesInv, Sorted
      <4>2. CASE j \notin DOMAIN born
        BY <3>1, <3>4, <4>2
      <4> QED
        BY <4>1, <4>2
    <3> QED
      BY <1>1, <3>3, <3>4, <3>5 DEF PagesInv, Sorted
  <2> QED
    BY <2>1, <2>2
<1>5. ASSUME NEW r \in Run, phase[r] = "running", NEW x \in Owed(r)
      PROVE  x \in yielded[r] \/ x \in page[r] \/ Waits(r, x)'
  <2>1. x \in DOMAIN born /\ x \in Int
    BY <1>1, OwedListed DEF PagesInv
  <2>2. Ahead(r, x) \subseteq DOMAIN born /\ Ahead(r, x)' \subseteq DOMAIN born'
    BY DEF Ahead, Listing
  <2>3. IsFiniteSet(DOMAIN born) /\ IsFiniteSet(DOMAIN born')
    BY <1>1, FS_Interval
  <2>4. Cardinality(Ahead(r, x)) \in Int /\ Cardinality(Ahead(r, x)') \in Int
    BY <2>2, <2>3, FS_Subset, FS_CardinalityType
  <2>5. pos[r] \in Int
    BY DEF PagingTypeOK
  <2>6. Waits(r, x) => Waits(r, x)'
    BY <1>1, <1>3, <2>1, <2>4, <2>5 DEF Waits, Tickets, runVars
  <2> QED
    BY <1>5, <2>6 DEF PagesInv
<1> QED
  BY <1>1, <1>2, <1>4, <1>5 DEF PagesInv, NothingMissed, runVars, Tickets

\* A run starts with everything it owes ahead of it.
LEMMA PagesBegin ==
    ASSUME PagingTypeOK, PagesInv, NEW r \in Run, NEW w \in Window, Begin(r, w)
    PROVE  PagesInv'
<1>1. UNCHANGED <<connector, clock, born, page, unread, yielded>>
      /\ phase' = [phase EXCEPT ![r] = "running"]
      /\ window' = [window EXCEPT ![r] = w] /\ began' = [began EXCEPT ![r] = clock]
      /\ listed' = [listed EXCEPT ![r] = Len(born)]
      /\ pos' = [pos EXCEPT ![r] = IF Tickets THEN FirstDay(w, clock) ELSE 0]
      /\ last' = [last EXCEPT ![r] =
                    Tickets /\ FirstDay(w, clock) > LastDay(w, clock)]
  BY DEF Begin
<1>2. Sorted'
  BY <1>1 DEF PagesInv, Sorted, PagingTypeOK
<1>3. ASSUME NEW q \in Run, q # r
      PROVE  Owed(q)' = Owed(q) /\ \A x : Waits(q, x)' = Waits(q, x)
  BY <1>1, <1>3
     DEF Owed, Waits, Ahead, Listing, Tickets, PagingTypeOK
<1>4. ASSUME NEW x \in Owed(r)' PROVE Waits(r, x)'
  <2>1. /\ x \in DOMAIN born /\ Extracts(connector, w, clock, born[x])
        /\ pos'[r] = (IF Tickets THEN FirstDay(w, clock) ELSE 0)
        /\ last'[r] = (Tickets /\ FirstDay(w, clock) > LastDay(w, clock))
        /\ Tickets' = Tickets
    BY <1>1 DEF Owed, PagingTypeOK, Tickets
  <2>2. CASE Tickets
    <3>1. TicketInWindow(w, clock, born[x])
      BY <2>1, <2>2 DEF Extracts, Tickets
    <3>2. FirstDay(w, clock) <= DayOf(born[x]) /\ DayOf(born[x]) <= LastDay(w, clock)
      BY <3>1 DEF TicketInWindow, FirstDay, LastDay
    <3>3. w.start \in Int \cup {NoTime} /\ w.end \in Int \cup {NoTime}
          /\ clock \in Int /\ born[x] \in Int
      BY <2>1, PagingAssumption DEF PagingTypeOK
    <3>4. FirstDay(w, clock) \in Int /\ LastDay(w, clock) \in Int
          /\ DayOf(born[x]) \in Int
      BY <3>3, ExtractionAssumption DEF FirstDay, LastDay, DayOf
    <3>5. pos'[r] <= DayOf(born'[x])
      BY <1>1, <2>1, <2>2, <3>2
    <3>6. ~(FirstDay(w, clock) > LastDay(w, clock))
      BY <3>2, <3>4
    <3>7. ~last'[r] /\ Tickets'
      BY <2>1, <2>2, <3>6
    <3> QED
      BY <3>5, <3>7 DEF Waits
  <2>3. CASE ~Tickets
    <3>1. Ahead(r, x)' \subseteq DOMAIN born /\ DOMAIN born = 1 .. Len(born)
          /\ Len(born) \in Int
      BY <1>1 DEF Ahead, Listing, PagingTypeOK
    <3>2. IsFiniteSet(Ahead(r, x)')
      BY <3>1, FS_Interval, FS_Subset
    <3>3. Cardinality(Ahead(r, x)') \in Nat
      BY <3>2, FS_CardinalityType
    <3>4. ~last'[r] /\ ~Tickets' /\ pos'[r] = 0
      BY <2>1, <2>3
    <3>5. pos'[r] <= Cardinality(Ahead(r, x)')
      BY <3>3, <3>4
    <3> QED
      BY <3>4, <3>5 DEF Waits
  <2> QED
    BY <2>2, <2>3
<1>5. \A q \in Run : ~Tickets' => pos'[q] >= 0
  BY <1>1 DEF PagesInv, PagingTypeOK, Tickets
<1>6. \A q \in Run : phase'[q] = "running" => \A x \in Owed(q)' :
         x \in yielded'[q] \/ x \in page'[q] \/ Waits(q, x)'
  BY <1>1, <1>3, <1>4 DEF PagesInv, PagingTypeOK
<1>7. NothingMissed'
  BY <1>1, <1>3 DEF PagesInv, NothingMissed, PagingTypeOK
<1> QED
  BY <1>2, <1>5, <1>6, <1>7 DEF PagesInv

\* A page takes what comes next off the list, and is full if anything is left.
LEMMA PagesFetchPage ==
    ASSUME PagingTypeOK, PagesInv, NEW r \in Run, FetchPage(r) PROVE PagesInv'
<1>1. UNCHANGED <<connector, clock, born, phase, window, began, listed, unread,
                  yielded>>
      /\ page' = [page EXCEPT ![r] = PageAt(r)]
      /\ pos' = [pos EXCEPT ![r] = @ + PageSize]
      /\ last' = [last EXCEPT ![r] = Cardinality(PageAt(r)) < PageSize]
      /\ page[r] = {} /\ ~Tickets /\ phase[r] = "running" /\ ~last[r]
  BY DEF FetchPage, CanRequest, Short
<1>2. /\ page' \in [Run -> SUBSET Record] /\ page'[r] = PageAt(r)
      /\ pos'[r] = pos[r] + PageSize
      /\ last'[r] = (Cardinality(PageAt(r)) < PageSize)
      /\ \A q \in Run : q # r =>
           page'[q] = page[q] /\ pos'[q] = pos[q] /\ last'[q] = last[q]
      /\ pos \in [Run -> Int] /\ PageSize \in Nat /\ pos[r] >= 0
  BY <1>1, PagingTypesStep, PagingAssumption DEF PagingTypeOK, PagesInv
<1>3. \A q \in Run : Owed(q)' = Owed(q) /\ \A x : Ahead(q, x)' = Ahead(q, x)
  BY <1>1 DEF Owed, Ahead, Listing, Tickets
<1>4. ASSUME NEW q \in Run, phase[q] = "running", NEW x \in Owed(q)
      PROVE  x \in yielded[q] \/ x \in page'[q] \/ Waits(q, x)'
  <2>1. CASE q # r
    <3>1. Waits(q, x)' = Waits(q, x)
      BY <1>1, <1>2, <1>3, <2>1 DEF Waits, Tickets
    <3> QED
      BY <1>2, <1>4, <2>1, <3>1 DEF PagesInv
  <2>2. CASE q = r
    <3>1. x \in yielded[r] \/ pos[r] <= Cardinality(Ahead(r, x))
      BY <1>1, <1>4, <2>2 DEF PagesInv, Waits
    <3>2. x \in Listing(r)
      BY <2>2, OwedListed DEF PagesInv
    <3>3. Ahead(r, x) \subseteq DOMAIN born /\ DOMAIN born = 1 .. Len(born)
          /\ Len(born) \in Int
      BY DEF Ahead, Listing, PagingTypeOK
    <3>4. Cardinality(Ahead(r, x)) \in Nat
      <4>1. IsFiniteSet(DOMAIN born)
        BY <3>3, FS_Interval
      <4>2. IsFiniteSet(Ahead(r, x))
        BY <3>3, <4>1, FS_Subset
      <4> QED
        BY <4>2, FS_CardinalityType
    <3>5. CASE pos[r] <= Cardinality(Ahead(r, x))
               /\ Cardinality(Ahead(r, x)) < pos[r] + PageSize
      BY <1>2, <2>2, <3>2, <3>5 DEF PageAt, Rest
    <3>6. CASE Cardinality(Ahead(r, x)) >= pos[r] + PageSize
      <4>1. Cardinality(PageAt(r)) >= PageSize
        BY <1>1, <1>2, <3>2, <3>6, FullPage DEF PagesInv
      <4>2. IsFiniteSet(PageAt(r))
        BY <3>3, FS_Interval, FS_Subset DEF PageAt, Rest, Listing
      <4>3. Cardinality(PageAt(r)) \in Nat
        BY <4>2, FS_CardinalityType
      <4>4. ~last'[r]
        <5>1. ~(Cardinality(PageAt(r)) < PageSize)
          BY <1>2, <4>1, <4>3
        <5> QED
          BY <1>2, <5>1
      <4>5. ~Tickets'
        BY <1>1 DEF Tickets
      <4> QED
        BY <1>2, <1>3, <2>2, <3>6, <4>4, <4>5 DEF Waits
    <3> QED
      BY <1>2, <2>2, <3>1, <3>4, <3>5, <3>6
  <2> QED
    BY <2>1, <2>2
<1>5. Sorted'
  BY <1>1 DEF PagesInv, Sorted
<1>6. \A q \in Run : ~Tickets' => pos'[q] >= 0
  BY <1>1, <1>2 DEF PagesInv, Tickets
<1>7. NothingMissed'
  BY <1>1, <1>3 DEF PagesInv, NothingMissed
<1> QED
  BY <1>1, <1>3, <1>4, <1>5, <1>6, <1>7 DEF PagesInv

\* Where a response has no items, what is still ahead is noted as unread.
LEMMA PagesCutShort ==
    ASSUME PagingTypeOK, PagesInv, NEW r \in Run, CutShort(r) PROVE PagesInv'
<1>1. UNCHANGED <<connector, clock, born, phase, window, began, listed, pos, page,
                  yielded>>
      /\ unread' = [unread EXCEPT ![r] = @ \cup (Rest(r) \ yielded[r])]
      /\ last' = [last EXCEPT ![r] = TRUE]
      /\ page[r] = {} /\ ~Tickets /\ phase[r] = "running"
  BY DEF CutShort, CanRequest
<1>2. /\ unread'[r] = unread[r] \cup (Rest(r) \ yielded[r])
      /\ \A q \in Run : q # r => last'[q] = last[q] /\ unread'[q] = unread[q]
  BY <1>1 DEF PagingTypeOK
<1>3. /\ Owed(r)' \subseteq Owed(r)
      /\ \A x \in Owed(r)' : x \notin unread'[r]
  BY <1>1, <1>2 DEF Owed
<1>4. \A q \in Run : q # r => Owed(q)' = Owed(q)
  BY <1>1, <1>2 DEF Owed
<1>5. ASSUME NEW x \in Owed(r)' PROVE x \in yielded[r]
  <2>1. x \in yielded[r] \/ pos[r] <= Cardinality(Ahead(r, x))
    BY <1>1, <1>3, <1>5 DEF PagesInv, Waits
  <2>2. x \in Listing(r)
    BY <1>3, <1>5, OwedListed DEF PagesInv
  <2> QED
    BY <1>2, <1>3, <1>5, <2>1, <2>2 DEF Rest
<1>6. ASSUME NEW q \in Run, q # r, NEW x PROVE Waits(q, x)' = Waits(q, x)
  BY <1>1, <1>2, <1>6 DEF Waits, Ahead, Listing, Tickets
<1>7. Sorted'
  BY <1>1 DEF PagesInv, Sorted
<1>8. NothingMissed'
  BY <1>1, <1>4 DEF PagesInv, NothingMissed
<1>9. \A q \in Run : ~Tickets' => pos'[q] >= 0
  BY <1>1 DEF PagesInv, Tickets
<1>10. \A q \in Run : phase'[q] = "running" => \A x \in Owed(q)' :
          x \in yielded'[q] \/ x \in page'[q] \/ Waits(q, x)'
  BY <1>1, <1>4, <1>5, <1>6 DEF PagesInv
<1> QED
  BY <1>7, <1>8, <1>9, <1>10 DEF PagesInv

\* A day is read, or noted as unread, before the next one.
LEMMA PagesNextDay ==
    ASSUME PagingTypeOK, PagesInv, NEW r \in Run, FetchDay(r) \/ SkipDay(r)
    PROVE  PagesInv'
<1>1. UNCHANGED <<connector, clock, born, phase, window, began, listed, yielded>>
      /\ pos' = [pos EXCEPT ![r] = @ + 1]
      /\ last' = [last EXCEPT ![r] = pos[r] >= LastDay(window[r], began[r])]
      /\ page[r] = {} /\ Tickets /\ phase[r] = "running" /\ ~last[r]
      /\ \/ page' = [page EXCEPT ![r] = OfDay(r)] /\ UNCHANGED unread
         \/ /\ unread' = [unread EXCEPT ![r] = @ \cup OfDay(r)]
            /\ UNCHANGED page
  BY DEF FetchDay, SkipDay, NextDay, CanRequest
<1>2. /\ pos'[r] = pos[r] + 1 /\ pos[r] \in Int /\ unread[r] \subseteq unread'[r]
      /\ last'[r] = (pos[r] >= LastDay(window[r], began[r]))
      /\ \A q \in Run : q # r => /\ page'[q] = page[q] /\ pos'[q] = pos[q]
                               /\ last'[q] = last[q] /\ unread'[q] = unread[q]
      /\ OfDay(r) \subseteq page'[r] \cup unread'[r]
  BY <1>1 DEF PagingTypeOK
<1>3. /\ Tickets' /\ Owed(r)' \subseteq Owed(r)
      /\ \A x \in Owed(r)' : x \notin unread'[r]
  BY <1>1, <1>2 DEF Owed, Tickets
<1>4. \A q \in Run : q # r => Owed(q)' = Owed(q)
  BY <1>1, <1>2 DEF Owed, Tickets
<1>5. ASSUME NEW x \in Owed(r)'
      PROVE  x \in yielded[r] \/ x \in page'[r] \/ Waits(r, x)'
  <2>1. x \in yielded[r] \/ pos[r] <= DayOf(born[x])
    BY <1>1, <1>3, <1>5 DEF PagesInv, Waits
  <2>2. x \in DOMAIN born
    BY <1>3, <1>5, OwedListed DEF PagesInv
  <2>3. TicketInWindow(window[r], began[r], born[x])
    BY <1>1, <1>3, <1>5 DEF Owed, Extracts, Tickets
  <2>4. DayOf(born[x]) <= LastDay(window[r], began[r])
    BY <2>3 DEF TicketInWindow, LastDay
  <2>5. window[r].end \in Int \cup {NoTime} /\ began[r] \in Int /\ born[x] \in Int
    BY <2>2, PagingAssumption DEF PagingTypeOK, NoWindow
  <2>6. DayOf(born[x]) \in Int /\ LastDay(window[r], began[r]) \in Int
    BY <2>5, ExtractionAssumption DEF DayOf, LastDay
  <2>7. CASE DayOf(born[x]) = pos[r]
    BY <1>2, <1>3, <1>5, <2>2, <2>7 DEF OfDay
  <2>8. CASE pos[r] + 1 <= DayOf(born[x])
    <3>1. ~(pos[r] >= LastDay(window[r], began[r]))
      BY <1>2, <2>4, <2>6, <2>8
    <3>2. ~last'[r]
      BY <1>2, <3>1
    <3>3. pos'[r] <= DayOf(born'[x])
      BY <1>1, <1>2, <2>8
    <3> QED
      BY <1>3, <3>2, <3>3 DEF Waits
  <2> QED
    BY <1>2, <2>1, <2>6, <2>7, <2>8
<1>6. ASSUME NEW q \in Run, q # r, NEW x PROVE Waits(q, x)' = Waits(q, x)
  BY <1>1, <1>2, <1>3, <1>6 DEF Waits
<1>7. Sorted'
  BY <1>1 DEF PagesInv, Sorted
<1>8. NothingMissed'
  BY <1>1, <1>4 DEF PagesInv, NothingMissed
<1> QED
  BY <1>1, <1>2, <1>3, <1>4, <1>5, <1>6, <1>7, <1>8 DEF PagesInv

\* A record is yielded, or a generator ends, when it is exhausted or with an error.
LEMMA PagesYieldEnd ==
    ASSUME PagingTypeOK, PagesInv, NEW r \in Run,
           \/ \E x \in page[r] : Yield(r, x)
           \/ End(r, "error")
           \/ Exhausted(r) /\ End(r, "success")
    PROVE  PagesInv'
<1>1. UNCHANGED <<connector, clock, born, window, began, listed, unread>>
  BY DEF Yield, End
<1>2. \A q \in Run : Owed(q)' = Owed(q) /\ \A x : Ahead(q, x)' = Ahead(q, x)
  BY <1>1 DEF Owed, Ahead, Listing, Tickets
<1>3. Sorted'
  BY <1>1 DEF PagesInv, Sorted
<1>4. ASSUME NEW x \in page[r], Yield(r, x) PROVE PagesInv'
  <2>1. UNCHANGED <<phase, pos, last>>
        /\ page' = [page EXCEPT ![r] = @ \ {x}]
        /\ yielded' = [yielded EXCEPT ![r] = @ \cup {x}]
    BY <1>4 DEF Yield
  <2>2. \A q \in Run : \A y : Waits(q, y)' = Waits(q, y)
    BY <1>1, <1>2, <2>1 DEF Waits, Tickets
  <2>3. \A q \in Run : yielded[q] \subseteq yielded'[q]
                      /\ page[q] \subseteq page'[q] \cup yielded'[q]
    BY <2>1 DEF PagingTypeOK
  <2>4. NothingMissed'
    BY <1>2, <2>1, <2>3 DEF PagesInv, NothingMissed
  <2> QED
    BY <1>1, <1>2, <1>3, <2>1, <2>2, <2>3, <2>4 DEF PagesInv, Tickets
<1>5. ASSUME NEW s \in {"success", "error"}, End(r, s),
             s = "success" => Exhausted(r)
      PROVE  PagesInv'
  <2>1. /\ yielded' = yielded
        /\ phase'[r] = s /\ pos'[r] = 0
        /\ \A q \in Run : q # r => /\ phase'[q] = phase[q] /\ pos'[q] = pos[q]
                                 /\ last'[q] = last[q] /\ page'[q] = page[q]
    BY <1>5 DEF End, PagingTypeOK
  <2>2. \A q \in Run : \A y : q # r => Waits(q, y)' = Waits(q, y)
    BY <1>1, <1>2, <2>1 DEF Waits, Tickets
  <2>3. s = "success" => Owed(r) \subseteq yielded[r]
    BY <1>5 DEF Exhausted, PagesInv, Waits
  <2>4. NothingMissed'
    BY <1>2, <2>1, <2>3 DEF PagesInv, NothingMissed
  <2>5. \A q \in Run : ~Tickets' => pos'[q] >= 0
    BY <1>1, <2>1 DEF PagesInv, Tickets
  <2> QED
    BY <1>1, <1>2, <1>3, <2>1, <2>2, <2>4, <2>5 DEF PagesInv
<1> QED
  BY <1>4, <1>5

\* Each step of a run, its source and the clock, one by one.
LEMMA PagesStep == TypeInv /\ PagesInv /\ [SRNext]_srVars => PagesInv'
<1> SUFFICES ASSUME TypeInv, PagesInv, [SRNext]_srVars PROVE PagesInv'
  OBVIOUS
<1>t. PagingTypeOK
  BY DEF TypeInv, SRTypeOK
<1>1. CASE UNCHANGED pagingVars
  BY <1>1 DEF pagingVars, runVars, PagesInv, Sorted, NothingMissed, Owed, Waits,
              Ahead, Listing, Tickets
<1>2. CASE Tick \/ Appear
  BY <1>t, <1>2, PagesEnvironment
<1>3. ASSUME NEW r \in Run, NEW w \in Window, Start(r, w) PROVE PagesInv'
  BY <1>t, <1>3, PagesBegin DEF Start
<1>4. ASSUME NEW r \in Run, Request(r) PROVE PagesInv'
  BY <1>t, <1>4, PagesFetchPage, PagesCutShort, PagesNextDay DEF Request
<1>5. ASSUME NEW r \in Run, NEW x \in page[r], Consume(r, x) PROVE PagesInv'
  BY <1>t, <1>5, PagesYieldEnd DEF Consume
<1>6. ASSUME NEW r \in Run, Break(r) \/ Finish(r) \/ InsertUnconfirmed(r)
      PROVE  PagesInv'
  BY <1>t, <1>6, PagesYieldEnd DEF Break, Finish, Done, InsertUnconfirmed
<1> QED
  BY <1>1, <1>2, <1>3, <1>4, <1>5, <1>6
     DEF SRNext, srVars, Flush, RunFails, TransformRaises, Refused

\* A run that succeeds has yielded every record it owed, whatever appears while it
\* pages through the list.
THEOREM NothingIsMissed == SRSpec => []NothingMissed
<1>1. PagesInv => NothingMissed
  BY DEF PagesInv
<1> QED
  BY <1>1, TypesInit, TypesStep, PagesInit, PagesStep, PTL DEF SRSpec

-----------------------------------------------------------------------------
\* The table

\* Rows are fetched and stamped in the order of a batch, after the run began.
BatchOrder(r) ==
    /\ phase[r] # "running" => batch[r] = <<>>
    /\ phase[r] = "idle" => yielded[r] = {}
    /\ phase[r] = "running" => began[r] <= at[r] /\ at[r] <= clock
    /\ \A i \in DOMAIN batch[r] :
         /\ batch[r][i].id \in Accepted[connector]
         /\ began[r] <= batch[r][i].seen
         /\ batch[r][i].seen <= at[r]
         /\ batch[r][i].at <= clock
         /\ \A j \in DOMAIN batch[r] :
              j <= i => batch[r][j].seen <= batch[r][i].seen

\* What a run has fetched is not older than what is in the table.
Newer(r) ==
    \A x \in Record :
        /\ table[x].seen <= at[r]
        /\ \A i \in DOMAIN batch[r] :
             /\ table[x].seen <= batch[r][i].seen
             /\ table[x].at <= batch[r][i].at

Alone(r) == \A q \in Run : phase[q] = "running" => q = r

OrderInv ==
    /\ \A r \in Run : BatchOrder(r)
    /\ \A x \in Record : table[x].seen <= clock /\ table[x].at <= clock
    /\ ~mixed => \A r \in Run : phase[r] = "running" => Alone(r) /\ Newer(r)

\* What every step of the proofs below needs to know of the types.
LEMMA RowTypes ==
    ASSUME TypeInv
    PROVE  /\ \A r \in Run : /\ batch[r] \in Seq(Row)
                            /\ \A i \in DOMAIN batch[r] :
                                 /\ batch[r][i] \in Row
                                 /\ batch[r][i].id \in Record
                                 /\ batch[r][i].seen \in Nat
                                 /\ batch[r][i].at \in Nat
                            /\ began[r] \in Nat /\ at[r] \in Nat
           /\ \A x \in Record : /\ table[x] \in Row \cup {NoRow}
                               /\ table[x].seen \in Int /\ table[x].at \in Int
           /\ clock \in Nat
<1>1. \A r \in Run : batch[r] \in Seq(Row) /\ began[r] \in Nat /\ at[r] \in Nat
  BY PagingAssumption DEF TypeInv, SRTypeOK, PagingTypeOK
<1>2. \A row \in Row : row.id \in Record /\ row.seen \in Nat /\ row.at \in Nat
  BY PagingAssumption DEF Row
<1>3. \A x \in Record : table[x] \in Row \cup {NoRow}
  BY DEF TypeInv, SRTypeOK
<1>4. NoRow.seen \in Int /\ NoRow.at \in Int
  BY DEF NoRow
<1>5. clock \in Nat
  BY PagingAssumption DEF TypeInv, SRTypeOK, PagingTypeOK
<1> QED
  BY <1>1, <1>2, <1>3, <1>4, <1>5

\* An insert gives every id of the batch a row, takes none away, and, while only
\* one run is at work, replaces a row with a copy that is not older.
LEMMA InsertMerges ==
    ASSUME TypeInv, OrderInv, NEW r \in Run, Insert(r), NEW x \in Record
    PROVE  /\ \/ table'[x] = table[x]
              \/ \E i \in DOMAIN batch[r] : table'[x] = batch[r][i]
           /\ table[x] # NoRow => table'[x] # NoRow
           /\ HasRow(batch[r], x) => table'[x] # NoRow
           /\ ~mixed => /\ table[x].seen <= table'[x].seen
                        /\ \A i \in DOMAIN batch[r] : batch[r][i].id = x =>
                             batch[r][i].seen <= table'[x].seen
<1> DEFINE n == LastOf(batch[r], x)
<1>1. table'[x] = IF HasRow(batch[r], x) /\ n.at >= table[x].at
                  THEN n ELSE table[x]
  BY DEF Insert, Merge, HasRow, Wins
<1>2. CASE ~HasRow(batch[r], x)
  BY <1>1, <1>2, RowTypes DEF HasRow
<1>3. CASE HasRow(batch[r], x)
  <2>1. HasLast(batch[r], x)
    BY <1>3 DEF TypeInv, BatchesHaveLast
  <2>2. n \in Row /\ n.id = x
        /\ \E i \in DOMAIN batch[r] :
             /\ n = batch[r][i]
             /\ \A j \in DOMAIN batch[r] : batch[r][j].id = x => j <= i
    BY <2>1, LastOfRow, RowTypes
  <2>3. n.at \in Nat /\ n # NoRow
    BY <2>2, PagingAssumption DEF Row, NoRow
  <2> HIDE DEF n
  <2>4. table[x] = NoRow => n.at >= table[x].at
    BY <2>3 DEF NoRow
  <2>5. ASSUME ~mixed
        PROVE  /\ n.at >= table[x].at
               /\ table[x].seen <= n.seen
               /\ \A i \in DOMAIN batch[r] :
                    batch[r][i].id = x => batch[r][i].seen <= n.seen
    <3>1. phase[r] = "running"
      BY DEF OrderInv, BatchOrder, Insert, CanFlush
    <3>2. PICK i \in DOMAIN batch[r] :
            /\ n = batch[r][i]
            /\ \A j \in DOMAIN batch[r] : batch[r][j].id = x => j <= i
      BY <2>2
    <3> QED
      BY <2>5, <3>1, <3>2, RowTypes DEF OrderInv, BatchOrder, Newer
  <2> QED
    BY <1>1, <1>3, <2>2, <2>3, <2>4, <2>5
<1> QED
  BY <1>2, <1>3

\* The table and the batches are empty at first.
LEMMA OrderInit == SRInit => OrderInv
  BY PagingAssumption DEF SRInit, PagingInit, OrderInv, BatchOrder, NoRow

\* A request is not older than the last one, and a stamp is the present time.
LEMMA OrderStep == TypeInv /\ OrderInv /\ [SRNext]_srVars => OrderInv'
<1> SUFFICES ASSUME TypeInv, OrderInv, [SRNext]_srVars PROVE OrderInv'
  OBVIOUS
<1>t. /\ phase \in [Run -> {"idle", "running", "success", "error"}]
      /\ began \in [Run -> 0 .. MaxClock] /\ at \in [Run -> 0 .. MaxClock]
      /\ batch \in [Run -> Seq(Row)] /\ yielded \in [Run -> SUBSET Record]
  BY DEF TypeInv, SRTypeOK, PagingTypeOK
<1>1. CASE UNCHANGED srVars \/ (Appear /\ UNCHANGED syncVars)
  BY <1>1 DEF srVars, pagingVars, runVars, syncVars, Appear, OrderInv,
              BatchOrder, Newer, Alone
<1>2. CASE Tick /\ UNCHANGED syncVars
  <2>1. clock' = clock + 1 /\ UNCHANGED <<connector, runVars, batch, table, mixed>>
    BY <1>2 DEF Tick, syncVars
  <2>2. ASSUME NEW r \in Run PROVE BatchOrder(r)'
    <3>1. at[r] \in Nat /\ clock \in Nat
      BY <1>t, PagingAssumption DEF TypeInv, SRTypeOK, PagingTypeOK
    <3>2. \A i \in DOMAIN batch[r] : batch[r][i].at \in Nat
      BY RowTypes
    <3>3. BatchOrder(r)
      BY DEF OrderInv
    <3> QED
      BY <2>1, <3>1, <3>2, <3>3 DEF BatchOrder, runVars
  <2>3. \A x \in Record : table'[x].seen <= clock' /\ table'[x].at <= clock'
    BY <2>1, RowTypes DEF OrderInv
  <2> QED
    BY <2>1, <2>2, <2>3 DEF OrderInv, Alone, Newer, runVars
<1>3. ASSUME NEW r \in Run, NEW w \in Window, Start(r, w) PROVE OrderInv'
  <2>1. /\ UNCHANGED <<connector, clock, yielded, batch, table>>
        /\ phase[r] = "idle" /\ phase' = [phase EXCEPT ![r] = "running"]
        /\ began' = [began EXCEPT ![r] = clock] /\ at' = [at EXCEPT ![r] = clock]
        /\ mixed' = (mixed \/ \E q \in Run : phase[q] = "running")
    BY <1>3 DEF Start, Begin
  <2>2. batch[r] = <<>>
    BY <2>1 DEF OrderInv, BatchOrder
  <2>3. \A q \in Run : BatchOrder(q)'
    BY <2>1, <2>2, <1>t, RowTypes DEF OrderInv, BatchOrder
  <2>4. ASSUME ~mixed' PROVE \A q \in Run : phase'[q] = "running" => q = r
    BY <2>1, <2>4, <1>t
  <2>5. Newer(r)'
    BY <2>1, <2>2, <1>t, RowTypes DEF OrderInv, Newer
  <2> QED
    BY <2>1, <2>3, <2>4, <2>5 DEF OrderInv, Alone
<1>4. ASSUME NEW r \in Run, Request(r) PROVE OrderInv'
  <2>1. /\ UNCHANGED <<connector, clock, phase, began, yielded, batch, table, mixed>>
        /\ at' = [at EXCEPT ![r] = clock] /\ phase[r] = "running"
    BY <1>4 DEF Request, FetchPage, CutShort, FetchDay, SkipDay, NextDay, CanRequest, syncVars
  <2>2. \A q \in Run : BatchOrder(q)'
    BY <2>1, <1>t, RowTypes DEF OrderInv, BatchOrder
  <2>3. ~mixed => Newer(r)'
    BY <2>1, <1>t, RowTypes DEF OrderInv, Newer
  <2> QED
    BY <2>1, <2>2, <2>3 DEF OrderInv, Alone
<1>5. ASSUME NEW r \in Run, NEW x \in page[r], Consume(r, x) PROVE OrderInv'
  <2> DEFINE row == [id |-> x, seen |-> at[r], at |-> clock]
  <2>1. /\ UNCHANGED <<connector, clock, phase, began, at, table, mixed>>
        /\ \A q \in Run : q # r => yielded'[q] = yielded[q]
        /\ phase[r] = "running"
    BY <1>5, <1>t DEF Consume, Yield
  <2>2. \/ batch' = batch
        \/ /\ x \in Accepted[connector]
           /\ batch' = [batch EXCEPT ![r] = Append(@, row)]
    BY <1>5 DEF Consume
  <2>3. CASE batch' = batch
    BY <2>1, <2>3 DEF OrderInv, BatchOrder, Newer, Alone
  <2>4. CASE /\ x \in Accepted[connector]
             /\ batch' = [batch EXCEPT ![r] = Append(@, row)]
    <3>1. row \in Row
      BY DEF TypeInv, SRTypeOK, PagingTypeOK, Row
    <3>2. /\ DOMAIN batch[r] = 1 .. Len(batch[r]) /\ Len(batch[r]) \in Nat
          /\ DOMAIN batch'[r] = 1 .. Len(batch[r]) + 1
          /\ \A i \in DOMAIN batch[r] : batch'[r][i] = batch[r][i]
          /\ batch'[r][Len(batch[r]) + 1] = row
          /\ \A q \in Run : q # r => batch'[q] = batch[q]
      BY <1>t, <2>4, <3>1
    <3>3. /\ row.id = x /\ row.seen = at[r] /\ row.at = clock
      OBVIOUS
    <3> HIDE DEF row
    <3>4. BatchOrder(r)'
      <4>1. BatchOrder(r)
        BY DEF OrderInv
      <4>2a. at[r] \in Nat /\ began[r] \in Nat /\ clock \in Nat
        BY <1>t, PagingAssumption DEF TypeInv, SRTypeOK, PagingTypeOK
      <4>2b. \A i \in DOMAIN batch[r] : batch[r][i].seen \in Nat
        BY RowTypes
      <4>2. /\ at[r] \in Nat /\ began[r] \in Nat /\ clock \in Nat
            /\ \A i \in DOMAIN batch[r] : batch[r][i].seen \in Nat
        BY <4>2a, <4>2b
      <4>3. phase'[r] = "running" /\ began'[r] <= at'[r] /\ at'[r] <= clock'
        BY <2>1, <4>1 DEF BatchOrder
      <4>4. ASSUME NEW i \in DOMAIN batch'[r]
            PROVE  /\ batch'[r][i].id \in Accepted[connector]
                   /\ began[r] <= batch'[r][i].seen
                   /\ batch'[r][i].seen <= at[r]
                   /\ batch'[r][i].at <= clock
        BY <2>1, <2>4, <3>2, <3>3, <4>1, <4>2 DEF BatchOrder
      <4>5. ASSUME NEW i \in DOMAIN batch'[r], NEW j \in DOMAIN batch'[r], j <= i
            PROVE  batch'[r][j].seen <= batch'[r][i].seen
        <5>1. CASE i = Len(batch[r]) + 1 /\ j \in DOMAIN batch[r]
          BY <2>1, <3>2, <3>3, <4>1, <4>2, <5>1 DEF BatchOrder
        <5>2. CASE i = Len(batch[r]) + 1 /\ j = i
          BY <3>2, <3>3, <4>2, <5>2
        <5>3. CASE i \in DOMAIN batch[r] /\ j \in DOMAIN batch[r]
          BY <3>2, <4>1, <4>5, <5>3 DEF BatchOrder
        <5> QED
          BY <3>2, <4>5, <5>1, <5>2, <5>3
      <4> QED
        BY <2>1, <4>3, <4>4, <4>5 DEF BatchOrder
    <3>5. \A q \in Run : q # r => BatchOrder(q)'
      BY <2>1, <3>2 DEF OrderInv, BatchOrder
    <3>6. ~mixed => Alone(r) /\ Newer(r)'
      BY <2>1, <3>2, <3>3, RowTypes DEF OrderInv, Newer
    <3> QED
      BY <2>1, <3>4, <3>5, <3>6 DEF OrderInv, Alone
  <2> QED
    BY <2>2, <2>3, <2>4
<1>6. ASSUME NEW r \in Run, Insert(r), Flush(r) \/ InsertUnconfirmed(r)
      PROVE  OrderInv'
  <2>1. /\ UNCHANGED <<connector, clock, began, yielded, mixed>>
        /\ phase[r] = "running"
        /\ \A q \in Run : q # r => phase'[q] = phase[q] /\ at'[q] = at[q]
                                 /\ batch'[q] = batch[q]
        /\ batch'[r] = <<>>
        /\ phase'[r] = "error" \/ (phase'[r] = phase[r] /\ at'[r] = at[r])
    <3>1. phase[r] = "running" /\ batch'[r] = <<>>
          /\ \A q \in Run : q # r => batch'[q] = batch[q]
      BY <1>6, <1>t DEF Insert, CanFlush, OrderInv, BatchOrder
    <3>2. CASE Flush(r)
      BY <3>1, <3>2 DEF Flush, pagingVars, runVars
    <3>3. CASE InsertUnconfirmed(r)
      <4>1. UNCHANGED <<connector, clock, began, yielded, mixed>>
        BY <3>3 DEF InsertUnconfirmed, End
      <4>2. phase' = [phase EXCEPT ![r] = "error"] /\ at' = [at EXCEPT ![r] = 0]
        BY <3>3 DEF InsertUnconfirmed, End
      <4> QED
        <5>1. phase'[r] = "error"
          BY <4>2, <1>t
        <5>2. \A q \in Run : q # r => phase'[q] = phase[q] /\ at'[q] = at[q]
          BY <4>2, <1>t
        <5> QED
          BY <3>1, <4>1, <5>1, <5>2
    <3> QED
      BY <1>6, <3>2, <3>3
  <2>2. \A x \in Record : table'[x].seen <= clock /\ table'[x].at <= clock
                         /\ (~mixed => table'[x].seen <= at[r])
    BY <1>6, <2>1, InsertMerges, RowTypes DEF OrderInv, BatchOrder, Newer
  <2> QED
    BY <2>1, <2>2 DEF OrderInv, BatchOrder, Newer, Alone
<1>7. ASSUME NEW r \in Run, NEW s \in {"success", "error"}, End(r, s),
             UNCHANGED <<table, mixed>>,
             \/ batch[r] = <<>> /\ batch' = batch
             \/ batch' = [batch EXCEPT ![r] = <<>>]
      PROVE  OrderInv'
  <2>1. /\ UNCHANGED <<connector, clock, began, yielded>>
        /\ phase[r] = "running" /\ phase'[r] = s /\ batch'[r] = <<>>
        /\ \A q \in Run : q # r => phase'[q] = phase[q] /\ at'[q] = at[q]
                                 /\ batch'[q] = batch[q]
    BY <1>7, <1>t DEF End
  <2> QED
    BY <1>7, <2>1 DEF OrderInv, BatchOrder, Newer, Alone
<1> QED
  BY <1>1, <1>2, <1>3, <1>4, <1>5, <1>6, <1>7
     DEF SRNext, Flush, InsertUnconfirmed, RunFails, TransformRaises, Refused,
         Break, Finish, Done, syncVars

\* A row that a run owes its window to, once it was inserted.
Held(r, x) ==
    /\ table[x] # NoRow
    /\ ~mixed => table[x].seen >= began[r]

\* What a run has yielded and validate() accepts is in its batch or in the table.
LoadInv ==
    \A r \in Run : phase[r] \in {"running", "success"} =>
        /\ yielded[r] \cap Poison[connector] = {}
        /\ \A x \in yielded[r] \cap Accepted[connector] :
             HasRow(batch[r], x) \/ Held(r, x)

\* The fetch times of the table are numbers, before a step and after it.
LEMMA TableType ==
    ASSUME TypeInv, [SRNext]_srVars, NEW x \in Record
    PROVE  table[x].seen \in Int /\ table'[x].seen \in Int
<1>1. TypeInv'
  BY TypesStep
<1>2. table[x] \in Row \cup {NoRow} /\ table'[x] \in Row \cup {NoRow}
  BY <1>1 DEF TypeInv, SRTypeOK
<1>3. \A row \in Row \cup {NoRow} : row.seen \in Int
  BY PagingAssumption DEF Row, NoRow
<1> QED
  BY <1>2, <1>3

\* No step takes a row out of the table or, while no runs overlap, puts an older
\* copy in its place.
LEMMA TableStep ==
    ASSUME TypeInv, OrderInv, [SRNext]_srVars, NEW x \in Record
    PROVE  /\ table[x] # NoRow => table'[x] # NoRow
           /\ mixed => mixed'
           /\ ~mixed => table[x].seen <= table'[x].seen
<1>1. ASSUME NEW r \in Run, Insert(r), Flush(r) \/ InsertUnconfirmed(r)
      PROVE  /\ table[x] # NoRow => table'[x] # NoRow
             /\ mixed' = mixed
             /\ ~mixed => table[x].seen <= table'[x].seen
  BY <1>1, InsertMerges DEF Flush, InsertUnconfirmed
<1>2. table[x].seen \in Int
  BY RowTypes
<1>3. \/ table' = table /\ (mixed => mixed')
      \/ \E r \in Run : Insert(r) /\ (Flush(r) \/ InsertUnconfirmed(r))
  BY DEF SRNext, srVars, syncVars, Start, Request, Consume, Flush, Finish,
         RunFails, TransformRaises, Refused, InsertUnconfirmed, Break
<1> QED
  BY <1>1, <1>2, <1>3

\* A record that was yielded is batched, and a batch is inserted whole.
LEMMA LoadStep ==
    TypeInv /\ OrderInv /\ LoadInv /\ [SRNext]_srVars => LoadInv'
<1> SUFFICES ASSUME TypeInv, OrderInv, LoadInv, [SRNext]_srVars PROVE LoadInv'
  OBVIOUS
<1>t. /\ phase \in [Run -> {"idle", "running", "success", "error"}]
      /\ began \in [Run -> 0 .. MaxClock] /\ yielded \in [Run -> SUBSET Record]
      /\ batch \in [Run -> Seq(Row)]
  BY DEF TypeInv, SRTypeOK, PagingTypeOK
<1>h. ASSUME NEW r \in Run, NEW x \in Record, began'[r] = began[r], Held(r, x)
      PROVE  Held(r, x)'
  <2>1. /\ table'[x] # NoRow /\ (~mixed' => ~mixed)
        /\ ~mixed => table[x].seen <= table'[x].seen
    BY <1>h, TableStep DEF Held
  <2>2. began[r] \in Int
    BY <1>t
  <2>3. table[x].seen \in Int /\ table'[x].seen \in Int
    BY TableType
  <2> QED
    BY <1>h, <2>1, <2>2, <2>3 DEF Held
<1>1. ASSUME UNCHANGED <<connector, yielded, batch>>,
             \A q \in Run : phase'[q] \in {"running", "success"} =>
                phase[q] \in {"running", "success"} /\ began'[q] = began[q]
      PROVE  LoadInv'
  BY <1>1, <1>h, <1>t DEF LoadInv
<1>2. CASE UNCHANGED srVars \/ ((Tick \/ Appear) /\ UNCHANGED syncVars)
  BY <1>1, <1>2 DEF srVars, pagingVars, runVars, syncVars, Tick, Appear
<1>3. ASSUME NEW r \in Run, NEW w \in Window, Start(r, w) PROVE LoadInv'
  <2>1. /\ UNCHANGED <<connector, yielded, batch>>
        /\ phase[r] = "idle"
        /\ \A q \in Run : q # r => phase'[q] = phase[q] /\ began'[q] = began[q]
    BY <1>3, <1>t DEF Start, Begin
  <2>2. yielded[r] = {}
    BY <2>1 DEF OrderInv, BatchOrder
  <2> QED
    BY <2>1, <2>2, <1>h, <1>t DEF LoadInv
<1>4. ASSUME NEW r \in Run, Request(r) PROVE LoadInv'
  BY <1>1, <1>4 DEF Request, FetchPage, CutShort, FetchDay, SkipDay, NextDay, syncVars
<1>5. ASSUME NEW r \in Run, NEW x \in page[r], Consume(r, x) PROVE LoadInv'
  <2> DEFINE row == [id |-> x, seen |-> at[r], at |-> clock]
  <2>1. /\ UNCHANGED <<connector, phase, began, table, mixed>>
        /\ yielded' = [yielded EXCEPT ![r] = @ \cup {x}]
        /\ x \notin Poison[connector]
        /\ IF x \in Accepted[connector]
           THEN batch' = [batch EXCEPT ![r] = Append(@, row)]
           ELSE batch' = batch
    BY <1>5 DEF Consume, Yield
  <2>2. row \in Row /\ row.id = x
    BY DEF TypeInv, SRTypeOK, PagingTypeOK, Row
  <2> HIDE DEF row
  <2>3. \A q \in Run, y \in Record : HasRow(batch[q], y) => HasRow(batch'[q], y)
    <3>1. \A q \in Run : \/ batch'[q] = batch[q]
                        \/ batch'[q] = Append(batch[q], row)
      <4>1. CASE batch' = batch
        BY <4>1
      <4>2. CASE batch' = [batch EXCEPT ![r] = Append(@, row)]
        BY <4>2, <1>t
      <4> QED
        BY <2>1, <4>1, <4>2
    <3>2. ASSUME NEW rows \in Seq(Row), NEW y \in Record, HasRow(rows, y)
          PROVE  HasRow(Append(rows, row), y)
      BY <3>2, <2>2 DEF HasRow
    <3> QED
      BY <3>1, <3>2, <1>t
  <2>4. x \in Accepted[connector] => HasRow(batch'[r], x)
    <3>1. ASSUME x \in Accepted[connector]
          PROVE  /\ Len(batch[r]) + 1 \in DOMAIN batch'[r]
                 /\ batch'[r][Len(batch[r]) + 1] = row
      BY <3>1, <2>1, <2>2, <1>t
    <3> QED
      BY <3>1, <2>2 DEF HasRow
  <2>5. yielded'[r] = yielded[r] \cup {x}
        /\ \A q \in Run : q # r => yielded'[q] = yielded[q]
    BY <2>1, <1>t
  <2>6. ASSUME NEW q \in Run, phase[q] \in {"running", "success"},
               NEW y \in yielded'[q] \cap Accepted[connector]
        PROVE  HasRow(batch'[q], y) \/ Held(q, y)'
    <3>1. CASE q = r /\ y = x
      BY <2>4, <2>6, <3>1
    <3>2. CASE y \in yielded[q]
      <4>1. y \in Record
        BY <3>2, <1>t
      <4>2. HasRow(batch[q], y) \/ Held(q, y)
        BY <2>6, <3>2 DEF LoadInv
      <4> QED
        BY <4>1, <4>2, <2>1, <2>3, <1>h
    <3> QED
      BY <2>5, <2>6, <3>1, <3>2
  <2>7. \A q \in Run : phase[q] \in {"running", "success"} =>
          yielded'[q] \cap Poison[connector] = {}
    BY <2>1, <2>5 DEF LoadInv
  <2> QED
    BY <2>1, <2>6, <2>7 DEF LoadInv, HasRow
<1>6. ASSUME NEW r \in Run, Insert(r), Flush(r) \/ InsertUnconfirmed(r)
      PROVE  LoadInv'
  <2>1. UNCHANGED <<connector, yielded, began, mixed>>
    BY <1>6 DEF Flush, InsertUnconfirmed, End, pagingVars, runVars
  <2>2. \A q \in Run : phase'[q] \in {"running", "success"} =>
                        phase[q] \in {"running", "success"}
    BY <1>6, <1>t DEF Flush, InsertUnconfirmed, End, pagingVars, runVars
  <2>3. \A q \in Run : q # r => batch'[q] = batch[q]
    BY <1>6, <1>t DEF Insert
  <2>4. ASSUME NEW x \in Record, HasRow(batch[r], x) PROVE Held(r, x)'
    <3>1. PICK i \in DOMAIN batch[r] : batch[r][i].id = x
      BY <2>4 DEF HasRow
    <3>2. /\ table'[x] # NoRow
          /\ ~mixed => batch[r][i].seen <= table'[x].seen
      BY <1>6, <2>4, <3>1, InsertMerges
    <3>3. began[r] <= batch[r][i].seen
      BY DEF OrderInv, BatchOrder
    <3>4. began[r] \in Int /\ batch[r][i].seen \in Int
      BY <1>t, RowTypes
    <3>5. table'[x].seen \in Int
      BY TableType
    <3> QED
      BY <2>1, <3>2, <3>3, <3>4, <3>5 DEF Held
  <2>5. ASSUME NEW q \in Run, phase'[q] \in {"running", "success"},
               NEW x \in yielded[q] \cap Accepted[connector]
        PROVE  HasRow(batch'[q], x) \/ Held(q, x)'
    <3>1. x \in Record
      BY <1>t
    <3>2. HasRow(batch[q], x) \/ Held(q, x)
      BY <2>2, <2>5 DEF LoadInv
    <3> QED
      BY <3>1, <3>2, <2>1, <2>3, <2>4, <1>h
  <2> QED
    BY <2>1, <2>2, <2>5 DEF LoadInv, HasRow
<1>7. ASSUME NEW r \in Run, Break(r), UNCHANGED <<table, stored, handled>> PROVE LoadInv'
  <2>1. /\ UNCHANGED <<connector, yielded, began>>
        /\ \A q \in Run : q # r => batch'[q] = batch[q] /\ phase'[q] = phase[q]
        /\ phase'[r] = "error"
    BY <1>7, <1>t DEF Break, End
  <2> QED
    BY <2>1, <1>h, <1>t DEF LoadInv
<1>8. ASSUME NEW r \in Run, Finish(r) PROVE LoadInv'
  <2>1. /\ UNCHANGED <<connector, yielded, began, batch>>
        /\ \A q \in Run : phase'[q] \in {"running", "success"} =>
              phase[q] \in {"running", "success"}
    BY <1>8, <1>t DEF Finish, Done, Exhausted, End, syncVars
  <2> QED
    BY <1>1, <2>1
<1> QED
  BY <1>2, <1>3, <1>4, <1>5, <1>6, <1>7, <1>8
     DEF SRNext, Flush, InsertUnconfirmed, RunFails, TransformRaises, Refused

\* Nothing was yielded at first.
LEMMA LoadInit == SRInit => LoadInv
  BY DEF SRInit, PagingInit, LoadInv

\* A successful run has every valid record it owed in the table.
THEOREM SuccessHolds == SRSpec => []SuccessLoadsAll
<1>1. OrderInv /\ PagesInv /\ LoadInv => SuccessLoadsAll
  <2> SUFFICES ASSUME OrderInv, PagesInv, LoadInv, NEW r \in Run,
                      phase[r] = "success"
               PROVE  /\ yielded[r] \cap Poison[connector] = {}
                      /\ \A x \in Owed(r) \cap Accepted[connector] : Held(r, x)
    BY DEF SuccessLoadsAll, Held
  <2>1. batch[r] = <<>> /\ \A x : ~HasRow(batch[r], x)
    BY DEF OrderInv, BatchOrder, HasRow
  <2>2. Owed(r) \subseteq yielded[r]
    BY DEF PagesInv, NothingMissed
  <2> QED
    BY <2>1, <2>2 DEF LoadInv
<1> QED
  BY <1>1, TypesInit, TypesStep, OrderInit, OrderStep, PagesInit, PagesStep,
     LoadInit, LoadStep, PTL DEF SRSpec

\* A newer copy of a record is not displaced by an older one unless runs overlap.
THEOREM LastFetchedHolds == SRSpec => LastFetchedSurvives
<1> DEFINE Keeps ==
      ~mixed' =>
         /\ \A x \in Record : table'[x].seen >= table[x].seen
         /\ \A r \in Run : stored'[r] # stored[r] =>
              \A i \in DOMAIN batch[r] :
                table'[batch[r][i].id].seen >= batch[r][i].seen
<1>1. TypeInv /\ OrderInv /\ [SRNext]_srVars => [Keeps]_srVars
  <2> SUFFICES ASSUME TypeInv, OrderInv, [SRNext]_srVars, ~mixed'
               PROVE  /\ \A x \in Record : table'[x].seen >= table[x].seen
                      /\ \A r \in Run : stored'[r] # stored[r] =>
                           \A i \in DOMAIN batch[r] :
                             table'[batch[r][i].id].seen >= batch[r][i].seen
    OBVIOUS
  <2>1. ASSUME NEW x \in Record
        PROVE  /\ table'[x].seen >= table[x].seen
               /\ table[x].seen \in Int /\ table'[x].seen \in Int
               /\ ~mixed
    <3>1. table[x].seen \in Int /\ table'[x].seen \in Int
      BY TableType
    <3> QED
      BY <3>1, TableStep
  <2>2. ASSUME NEW r \in Run, stored'[r] # stored[r], NEW i \in DOMAIN batch[r]
        PROVE  table'[batch[r][i].id].seen >= batch[r][i].seen
    <3>1. batch[r][i].id \in Record /\ batch[r][i].seen \in Int
      BY RowTypes
    <3>2. Insert(r)
      BY <2>2
         DEF SRNext, srVars, syncVars, Start, Request, Consume, Flush, Finish,
             RunFails, TransformRaises, Refused, InsertUnconfirmed, Break,
             Insert, TypeInv, SRTypeOK
    <3> QED
      BY <2>1, <3>1, <3>2, InsertMerges
  <2> QED
    BY <2>1, <2>2
<1> QED
  BY <1>1, TypesInit, TypesStep, OrderInit, OrderStep, PTL
     DEF SRSpec, LastFetchedSurvives

\* A row of a batch fits the table exactly when its columns of text come from a
\* text or from nothing.
THEOREM BatchesFit == SRSpec => []BatchFits
<1>1. TypeInv /\ OrderInv => BatchFits
  <2> SUFFICES ASSUME TypeInv, OrderInv, NEW r \in Run, NEW i \in DOMAIN batch[r]
               PROVE  batch[r][i].id \in Fitting[connector] <=>
                        Textual(connector, Content[connector][batch[r][i].id])
    BY DEF BatchFits
  <2> DEFINE x == batch[r][i].id
  <2>1. x \in Accepted[connector] /\ connector \in ConnectorName
    BY DEF OrderInv, BatchOrder, TypeInv, SRTypeOK, PagingTypeOK
  <2>2. /\ x \in Record \ Poison[connector]
        /\ Validate(connector, Transform(connector, Content[connector][x]))
    BY <2>1 DEF Accepted
  <2>3. ~Raises(connector, Content[connector][x])
    BY <2>1, <2>2 DEF Poison
  <2>4. Content[connector][x] \in [Keys(connector) -> Shape]
    BY <2>1, <2>2, SyncRunAssumption
  <2>5. Storable(connector, Transform(connector, Content[connector][x])) <=>
          Textual(connector, Content[connector][x])
    BY <2>1, <2>2, <2>3, <2>4, AcceptedFits
  <2> QED
    BY <2>1, <2>2, <2>5 DEF Fitting
<1> QED
  BY <1>1, TypesInit, TypesStep, OrderInit, OrderStep, PTL DEF SRSpec

-----------------------------------------------------------------------------
\* The promise of Sync

\* A run fetches what its window selects and nothing else, and what it has yielded
\* is in its batch, or was loaded or skipped.
PromiseOrder(r) ==
    /\ phase[r] = "idle" =>
         page[r] = {} /\ unread[r] = {} /\ handled[r] = {}
    /\ phase[r] = "running" =>
         /\ page[r] \cup Ids(batch[r]) \subseteq Listing(r)
         /\ yielded[r] \subseteq handled[r] \cup Ids(batch[r])
         /\ Tickets =>
              /\ FirstDay(window[r], began[r]) <= pos[r]
              /\ ~last[r] => pos[r] <= LastDay(window[r], began[r])

PromiseInv == \A r \in Run : PromiseOrder(r)

\* Nothing that existed changes its number or its time of creation.
Grows ==
    /\ connector' = connector
    /\ \A x \in DOMAIN born : x \in DOMAIN born' /\ born'[x] = born[x]

\* The source only grows.
LEMMA SourceGrows == ASSUME TypeInv, [SRNext]_srVars PROVE Grows
<1>1. CASE Appear
  <2>1. born \in Seq(0 .. MaxClock) /\ clock \in 0 .. MaxClock
    BY DEF TypeInv, SRTypeOK, PagingTypeOK
  <2> QED
    BY <1>1, <2>1 DEF Appear, Grows
<1>2. CASE UNCHANGED <<connector, born>>
  BY <1>2 DEF Grows
<1>3. CASE Tick \/ UNCHANGED srVars
  BY <1>2, <1>3 DEF Tick, srVars, pagingVars
<1>4. ASSUME NEW r \in Run, (\E w \in Window : Start(r, w)) \/ Request(r)
      PROVE  Grows
  BY <1>2, <1>4 DEF Start, Begin, Request, FetchPage, CutShort, FetchDay, SkipDay, NextDay
<1>5. ASSUME NEW r \in Run,
             (\E x \in page[r] : Consume(r, x)) \/ Flush(r) \/ Finish(r)
      PROVE  Grows
  BY <1>2, <1>5 DEF Consume, Yield, Flush, pagingVars, Finish, End
<1>6. ASSUME NEW r \in Run, Break(r) \/ InsertUnconfirmed(r) PROVE Grows
  BY <1>2, <1>6 DEF Break, InsertUnconfirmed, End
<1> QED
  BY <1>1, <1>3, <1>4, <1>5, <1>6 DEF SRNext, RunFails, TransformRaises, Refused

\* What a run was called with.
CallOf(r) == <<window[r], began[r], listed[r]>>

\* While a run keeps what it was called with, its list only grows, and what it
\* owes stays the same unless its source withholds something.
LEMMA CallStays ==
    ASSUME PagingTypeOK, Sorted, Grows, NEW r \in Run, CallOf(r)' = CallOf(r)
    PROVE  /\ Listing(r) \subseteq Listing(r)'
           /\ unread'[r] = unread[r] => Owed(r)' = Owed(r)
<1>1. UNCHANGED connector /\ window'[r] = window[r] /\ began'[r] = began[r]
      /\ listed'[r] = listed[r]
  BY DEF Grows, CallOf
<1>2. \A x \in 1 .. listed[r] : x \in DOMAIN born
  BY DEF Sorted, PagingTypeOK
<1>3. Listing(r) \subseteq Listing(r)'
  BY <1>1 DEF Listing, Grows
<1>4. ASSUME unread'[r] = unread[r] PROVE Owed(r)' = Owed(r)
  BY <1>1, <1>2, <1>4 DEF Owed, Grows, Tickets
<1> QED
  BY <1>3, <1>4

\* A batch grows by one id, and an empty one has none.
LEMMA IdsAppend ==
    ASSUME NEW rows \in Seq(Row), NEW row \in Row
    PROVE  Ids(Append(rows, row)) = Ids(rows) \cup {row.id} /\ Ids(<<>>) = {}
<1> DEFINE more == Append(rows, row)
<1>1. /\ Len(rows) \in Nat /\ DOMAIN rows = 1 .. Len(rows)
      /\ DOMAIN more = 1 .. Len(rows) + 1
      /\ \A i \in DOMAIN rows : more[i] = rows[i]
      /\ more[Len(rows) + 1] = row
  OBVIOUS
<1> HIDE DEF more
<1>2. Ids(more) = Ids(rows) \cup {row.id}
  BY <1>1 DEF Ids
<1>3. Ids(<<>>) = {}
  BY DEF Ids
<1> QED
  BY <1>2, <1>3 DEF more

\* The days that a run of tickets asks for are those of its window.
LEMMA DaysAreListed ==
    ASSUME PagingTypeOK, NEW r \in Run, Tickets,
           FirstDay(window[r], began[r]) <= pos[r],
           pos[r] <= LastDay(window[r], began[r]),
           NEW x \in DOMAIN born, DayOf(born[x]) = pos[r]
    PROVE  x \in Listing(r)
<1>1. TicketInWindow(window[r], began[r], born[x])
  BY DEF TicketInWindow, FirstDay, LastDay
<1> QED
  BY <1>1 DEF Listing, Extracts, Tickets

\* Every request stays in the window, and every record is batched or counted.
LEMMA PromiseStep ==
    TypeInv /\ PagesInv /\ OrderInv /\ PromiseInv /\ [SRNext]_srVars => PromiseInv'
<1> SUFFICES ASSUME TypeInv, PagesInv, OrderInv, PromiseInv, [SRNext]_srVars
             PROVE  PromiseInv'
  OBVIOUS
<1>t. /\ PagingTypeOK /\ Sorted /\ Grows /\ (Tickets' <=> Tickets)
      /\ phase \in [Run -> {"idle", "running", "success", "error"}]
      /\ window \in [Run -> Window \cup {NoWindow}]
      /\ began \in [Run -> 0 .. MaxClock] /\ pos \in [Run -> Int]
      /\ listed \in [Run -> Nat]
      /\ last \in [Run -> BOOLEAN] /\ page \in [Run -> SUBSET Record]
      /\ unread \in [Run -> SUBSET Record] /\ yielded \in [Run -> SUBSET Record]
      /\ batch \in [Run -> Seq(Row)] /\ handled \in [Run -> SUBSET Record]
  BY SourceGrows DEF TypeInv, SRTypeOK, PagingTypeOK, PagesInv, Grows, Tickets
<1> DEFINE Stays(q) == /\ phase'[q] = phase[q] /\ page'[q] = page[q]
                       /\ unread'[q] = unread[q] /\ handled'[q] = handled[q]
                       /\ batch'[q] = batch[q] /\ yielded'[q] = yielded[q]
                       /\ pos'[q] = pos[q] /\ last'[q] = last[q]
                       /\ CallOf(q)' = CallOf(q)
<1>s. ASSUME NEW q \in Run, Stays(q) PROVE PromiseOrder(q)'
  <2>1. Listing(q) \subseteq Listing(q)'
    BY <1>t, <1>s, CallStays
  <2>2. PromiseOrder(q)
    BY DEF PromiseInv
  <2>3. window'[q] = window[q] /\ began'[q] = began[q]
    BY <1>s DEF CallOf
  <2>4. Ids(batch[q])' = Ids(batch[q])
    BY <1>s DEF Ids
  <2> HIDE DEF Stays
  <2>5. phase[q] = "idle" => (page[q] = {} /\ unread[q] = {} /\ handled[q] = {})'
    BY <1>s, <2>2 DEF PromiseOrder, Stays
  <2>6. ASSUME phase[q] = "running"
        PROVE  /\ (page[q] \cup Ids(batch[q]) \subseteq Listing(q))'
               /\ (yielded[q] \subseteq handled[q] \cup Ids(batch[q]))'
               /\ (Tickets =>
                    /\ FirstDay(window[q], began[q]) <= pos[q]
                    /\ ~last[q] => pos[q] <= LastDay(window[q], began[q]))'
    BY <1>s, <1>t, <2>1, <2>2, <2>3, <2>4, <2>6
       DEF PromiseOrder, Stays, FirstDay, LastDay
  <2> QED
    BY <1>s, <2>5, <2>6 DEF PromiseOrder, Stays
<1>e. ASSUME NEW q \in Run, phase'[q] \in {"success", "error"}
      PROVE  PromiseOrder(q)'
  BY <1>e DEF PromiseOrder
<1>1. CASE UNCHANGED srVars \/ ((Tick \/ Appear) /\ UNCHANGED syncVars)
  BY <1>1, <1>s DEF PromiseInv, CallOf, srVars, pagingVars, runVars, syncVars,
                    Tick, Appear
<1>2. ASSUME NEW r \in Run, NEW w \in Window, Start(r, w) PROVE PromiseInv'
  <2>1. /\ UNCHANGED <<page, unread, yielded, batch, handled>>
        /\ phase[r] = "idle" /\ phase' = [phase EXCEPT ![r] = "running"]
        /\ window' = [window EXCEPT ![r] = w]
        /\ began' = [began EXCEPT ![r] = clock]
        /\ listed' = [listed EXCEPT ![r] = Len(born)]
        /\ pos' = [pos EXCEPT ![r] = IF Tickets THEN FirstDay(w, clock) ELSE 0]
        /\ last' = [last EXCEPT ![r] =
                      Tickets /\ FirstDay(w, clock) > LastDay(w, clock)]
    BY <1>2 DEF Start, Begin
  <2>2. \A q \in Run : q # r => Stays(q)
    BY <1>t, <2>1 DEF CallOf
  <2>3. /\ page'[r] = {} /\ Ids(batch'[r]) = {} /\ yielded'[r] = {}
    BY <2>1 DEF PromiseInv, PromiseOrder, OrderInv, BatchOrder, Ids
  <2>4. /\ phase'[r] = "running" /\ window'[r] = w /\ began'[r] = clock
        /\ pos'[r] = (IF Tickets THEN FirstDay(w, clock) ELSE 0)
        /\ last'[r] = (Tickets /\ FirstDay(w, clock) > LastDay(w, clock))
    BY <1>t, <2>1
  <2>5. FirstDay(w, clock) \in Int /\ LastDay(w, clock) \in Int
    <3>1. /\ w.start \in Int \cup {NoTime} /\ w.end \in Int \cup {NoTime}
          /\ clock \in Int
      BY <1>t, PagingAssumption DEF PagingTypeOK
    <3> QED
      BY <3>1, ExtractionAssumption DEF FirstDay, LastDay, DayOf
  <2>6. Tickets => /\ FirstDay(w, clock) <= pos'[r]
                   /\ ~last'[r] => pos'[r] <= LastDay(w, clock)
    <3>1. CASE Tickets
      <4>1. pos'[r] = FirstDay(w, clock)
        BY <2>4, <3>1
      <4>2. last'[r] = (FirstDay(w, clock) > LastDay(w, clock))
        BY <2>4, <3>1
      <4>3. FirstDay(w, clock) <= FirstDay(w, clock)
        BY <2>5
      <4>4. ~(FirstDay(w, clock) > LastDay(w, clock)) =>
              FirstDay(w, clock) <= LastDay(w, clock)
        BY <2>5
      <4> QED
        BY <4>1, <4>2, <4>3, <4>4
    <3> QED
      BY <3>1
  <2>7. (Tickets =>
           /\ FirstDay(window[r], began[r]) <= pos[r]
           /\ ~last[r] => pos[r] <= LastDay(window[r], began[r]))'
    BY <1>t, <2>4, <2>6 DEF FirstDay, LastDay
  <2>8. Ids(batch[r])' = Ids(batch'[r])
    BY DEF Ids
  <2>9. PromiseOrder(r)'
    BY <2>3, <2>4, <2>7, <2>8 DEF PromiseOrder
  <2> QED
    BY <1>s, <2>2, <2>9 DEF PromiseInv
<1>3. ASSUME NEW r \in Run, Request(r) PROVE PromiseInv'
  <2>1. /\ UNCHANGED <<phase, window, began, listed, born, yielded, batch, handled>>
        /\ page[r] = {} /\ ~last[r] /\ phase[r] = "running"
    BY <1>3 DEF Request, FetchPage, CutShort, FetchDay, SkipDay, NextDay, CanRequest, syncVars
  <2>2. ASSUME NEW q \in Run, q # r PROVE Stays(q)
    BY <1>3, <1>t, <2>1, <2>2
       DEF Request, FetchPage, CutShort, FetchDay, SkipDay, NextDay, CallOf
  <2>3. Listing(r)' = Listing(r) /\ Ids(batch[r])' = Ids(batch[r])
    BY <1>t, <2>1 DEF Listing, Ids, Grows
  <2>4. PromiseOrder(r)
    BY DEF PromiseInv
  <2>5. ASSUME FetchPage(r) PROVE PromiseOrder(r)'
    <3>1. page'[r] = PageAt(r) /\ PageAt(r) \subseteq Listing(r) /\ ~Tickets
      BY <1>t, <2>5 DEF FetchPage, PageAt, Rest
    <3>2. (page[r] \cup Ids(batch[r]) \subseteq Listing(r))'
      BY <2>1, <2>3, <2>4, <3>1 DEF PromiseOrder
    <3>3. (yielded[r] \subseteq handled[r] \cup Ids(batch[r]))'
      BY <2>1, <2>3, <2>4 DEF PromiseOrder
    <3> QED
      BY <1>t, <2>1, <3>1, <3>2, <3>3 DEF PromiseOrder
  <2>6. ASSUME CutShort(r) PROVE PromiseOrder(r)'
    <3>1. page'[r] = {} /\ ~Tickets
      BY <2>1, <2>6 DEF CutShort
    <3>2. /\ (page[r] \cup Ids(batch[r]) \subseteq Listing(r))'
          /\ (yielded[r] \subseteq handled[r] \cup Ids(batch[r]))'
      BY <2>1, <2>3, <2>4, <3>1 DEF PromiseOrder
    <3> QED
      BY <1>t, <2>1, <3>1, <3>2 DEF PromiseOrder
  <2>7. ASSUME Tickets, FetchDay(r) \/ SkipDay(r) PROVE PromiseOrder(r)'
    <3>1. /\ pos'[r] = pos[r] + 1
          /\ last'[r] = (pos[r] >= LastDay(window[r], began[r]))
          /\ page'[r] = OfDay(r) \/ page'[r] = {}
      BY <1>t, <2>1, <2>7 DEF FetchDay, SkipDay, NextDay
    <3>2. /\ FirstDay(window[r], began[r]) <= pos[r]
          /\ pos[r] <= LastDay(window[r], began[r])
      BY <2>1, <2>4, <2>7 DEF PromiseOrder
    <3>3. page'[r] \subseteq Listing(r)
      BY <1>t, <2>7, <3>1, <3>2, DaysAreListed DEF OfDay
    <3>4. /\ FirstDay(window[r], began[r]) \in Int
          /\ LastDay(window[r], began[r]) \in Int /\ pos[r] \in Int
      <4>1. /\ window[r].start \in Int \cup {NoTime}
            /\ window[r].end \in Int \cup {NoTime} /\ began[r] \in Int
        BY <1>t, PagingAssumption DEF NoWindow
      <4> QED
        BY <1>t, <4>1, ExtractionAssumption DEF FirstDay, LastDay, DayOf
    <3>5. /\ FirstDay(window[r], began[r]) <= pos'[r]
          /\ ~last'[r] => pos'[r] <= LastDay(window[r], began[r])
      <4>1. FirstDay(window[r], began[r]) <= pos[r] + 1
        BY <3>2, <3>4
      <4>2. ~(pos[r] >= LastDay(window[r], began[r])) =>
              pos[r] + 1 <= LastDay(window[r], began[r])
        BY <3>4
      <4> QED
        BY <3>1, <4>1, <4>2
    <3>6. (/\ FirstDay(window[r], began[r]) <= pos[r]
           /\ ~last[r] => pos[r] <= LastDay(window[r], began[r]))'
      BY <2>1, <3>5 DEF FirstDay, LastDay
    <3>7. (page[r] \cup Ids(batch[r]) \subseteq Listing(r))'
      BY <2>1, <2>3, <2>4, <3>3 DEF PromiseOrder
    <3>8. (yielded[r] \subseteq handled[r] \cup Ids(batch[r]))'
      BY <2>1, <2>3, <2>4 DEF PromiseOrder
    <3> QED
      BY <2>1, <3>6, <3>7, <3>8 DEF PromiseOrder
  <2>8. PromiseOrder(r)'
    BY <1>3, <2>5, <2>6, <2>7 DEF Request, FetchDay, SkipDay, NextDay
  <2> QED
    BY <1>s, <2>2, <2>8 DEF PromiseInv
<1>4. ASSUME NEW r \in Run, NEW x \in page[r], Consume(r, x) PROVE PromiseInv'
  <2> DEFINE row == [id |-> x, seen |-> at[r], at |-> clock]
  <2>1. /\ UNCHANGED <<connector, born, phase, window, began, listed, pos, last,
                       unread>>
        /\ phase[r] = "running"
        /\ page' = [page EXCEPT ![r] = @ \ {x}]
        /\ yielded' = [yielded EXCEPT ![r] = @ \cup {x}]
        /\ \/ /\ batch' = [batch EXCEPT ![r] = Append(@, row)]
              /\ handled' = handled
           \/ /\ handled' = [handled EXCEPT ![r] = @ \cup {x}]
              /\ batch' = batch
    BY <1>4 DEF Consume, Yield
  <2>2. row \in Row /\ row.id = x
    BY <1>t DEF PagingTypeOK, Row
  <2> HIDE DEF row
  <2>3. ASSUME NEW q \in Run, q # r PROVE Stays(q)
    BY <1>t, <2>1, <2>3 DEF CallOf
  <2>4. Listing(r)' = Listing(r)
    BY <2>1 DEF Listing
  <2>5. PromiseOrder(r)
    BY DEF PromiseInv
  <2>6. /\ page'[r] = page[r] \ {x} /\ yielded'[r] = yielded[r] \cup {x}
        /\ phase'[r] = "running" /\ Ids(batch[r])' = Ids(batch'[r])
        /\ \/ batch'[r] = Append(batch[r], row) /\ handled'[r] = handled[r]
           \/ handled'[r] = handled[r] \cup {x} /\ batch'[r] = batch[r]
    BY <1>t, <2>1 DEF Ids
  <2>7. \/ Ids(batch'[r]) = Ids(batch[r]) \cup {x} /\ handled'[r] = handled[r]
        \/ handled'[r] = handled[r] \cup {x} /\ Ids(batch'[r]) = Ids(batch[r])
    BY <1>t, <2>2, <2>6, IdsAppend
  <2>8. /\ (page[r] \cup Ids(batch[r]) \subseteq Listing(r))'
        /\ (yielded[r] \subseteq handled[r] \cup Ids(batch[r]))'
    BY <2>1, <2>4, <2>5, <2>6, <2>7 DEF PromiseOrder
  <2>9. (Tickets =>
           /\ FirstDay(window[r], began[r]) <= pos[r]
           /\ ~last[r] => pos[r] <= LastDay(window[r], began[r]))'
    BY <1>t, <2>1, <2>5 DEF PromiseOrder, FirstDay, LastDay
  <2>10. PromiseOrder(r)'
    BY <2>6, <2>8, <2>9 DEF PromiseOrder
  <2> QED
    BY <1>s, <2>3, <2>10 DEF PromiseInv
<1>5. ASSUME NEW r \in Run, Insert(r), Flush(r) PROVE PromiseInv'
  <2>1. /\ UNCHANGED <<phase, page, unread, yielded, pos, last, window, began,
                       listed, connector, born>>
        /\ batch' = [batch EXCEPT ![r] = <<>>]
        /\ handled' = [handled EXCEPT ![r] = @ \cup Ids(batch[r])]
    BY <1>5 DEF Flush, Insert, pagingVars, runVars
  <2>2. ASSUME NEW q \in Run, q # r PROVE Stays(q)
    BY <1>t, <2>1, <2>2 DEF CallOf
  <2>3. PromiseOrder(r)
    BY DEF PromiseInv
  <2>4. /\ Ids(batch[r])' = {}
        /\ handled'[r] = handled[r] \cup Ids(batch[r])
        /\ Listing(r)' = Listing(r)
    BY <1>t, <2>1 DEF Ids, Listing
  <2>5. phase[r] = "running"
    BY <1>5 DEF Insert, CanFlush, OrderInv, BatchOrder
  <2>6. (Tickets =>
           /\ FirstDay(window[r], began[r]) <= pos[r]
           /\ ~last[r] => pos[r] <= LastDay(window[r], began[r]))'
    BY <1>t, <2>1, <2>3, <2>5 DEF PromiseOrder, FirstDay, LastDay
  <2>7. PromiseOrder(r)'
    BY <2>1, <2>3, <2>4, <2>5, <2>6 DEF PromiseOrder
  <2> QED
    BY <1>s, <2>2, <2>7 DEF PromiseInv
<1>6. ASSUME NEW r \in Run, NEW s \in {"success", "error"}, End(r, s),
             \A q \in Run : q # r => handled'[q] = handled[q] /\ batch'[q] = batch[q]
      PROVE  PromiseInv'
  <2>1. \A q \in Run : q # r => Stays(q)
    BY <1>t, <1>6 DEF End, CallOf
  <2>2. phase'[r] = s
    BY <1>t, <1>6 DEF End
  <2> QED
    BY <1>s, <1>e, <2>1, <2>2 DEF PromiseInv
<1>7. ASSUME NEW r \in Run, Break(r), handled' = handled PROVE PromiseInv'
  BY <1>t, <1>6, <1>7 DEF Break
<1>8. ASSUME NEW r \in Run, InsertUnconfirmed(r) PROVE PromiseInv'
  <2>1. \A q \in Run : q # r => handled'[q] = handled[q] /\ batch'[q] = batch[q]
    BY <1>t, <1>8 DEF InsertUnconfirmed, Insert
  <2>2. End(r, "error")
    BY <1>8 DEF InsertUnconfirmed
  <2> QED
    BY <1>6, <2>1, <2>2
<1>9. ASSUME NEW r \in Run, Finish(r) PROVE PromiseInv'
  BY <1>t, <1>6, <1>9 DEF Finish, syncVars
<1> QED
  BY <1>1, <1>2, <1>3, <1>4, <1>5, <1>7, <1>8, <1>9
     DEF SRNext, Flush, RunFails, TransformRaises, Refused

\* No run has fetched anything at first.
LEMMA PromiseInit == SRInit => PromiseInv
  BY DEF SRInit, PagingInit, PromiseInv, PromiseOrder

\* What a window selects of the records that were made is what the list holds.
LEMMA SelectedIsListed ==
    ASSUME PagingTypeOK
    PROVE  /\ \A r \in Run :
                Promised!Selected(window[r], began[r]) = Listing(r)
           /\ \A w \in Window : Promised!Selected(w, clock) =
                {x \in DOMAIN born : Extracts(connector, w, clock, born[x])}
<1>1. DOMAIN born \subseteq Record /\ \A x \in DOMAIN born : born[x] \in Int
  BY BornAreRecords, PagingAssumption DEF PagingTypeOK
<1>0. \A x \in Record : /\ x \in DOMAIN born => Created[x] = born[x]
                        /\ Created[x] # NoTime <=> x \in DOMAIN born
  BY <1>1, TimesAssumption DEF Created
<1>2. ASSUME NEW r \in Run
      PROVE  Promised!Selected(window[r], began[r]) = Listing(r)
  BY <1>0, <1>1 DEF Promised!Selected, Listing
<1>3. ASSUME NEW w \in Window
      PROVE  Promised!Selected(w, clock) =
               {x \in DOMAIN born : Extracts(connector, w, clock, born[x])}
  BY <1>0, <1>1 DEF Promised!Selected
<1> QED
  BY <1>2, <1>3

\* A run that keeps its call has as much to do as before, unless it deals with
\* records or its source withholds some.
LEMMA TodoStays ==
    ASSUME PagingTypeOK, Sorted, Grows, NEW r \in Run,
           phase'[r] = phase[r], CallOf(r)' = CallOf(r)
    PROVE  /\ unread'[r] = unread[r] /\ handled'[r] = handled[r] =>
                Todo(r)' = Todo(r)
           /\ \A ids : unread'[r] = unread[r] /\ handled'[r] = handled[r] \cup ids =>
                Todo(r)' = Todo(r) \ ids
<1>1. unread'[r] = unread[r] => Owed(r)' = Owed(r)
  BY CallStays
<1> QED
  BY <1>1 DEF Todo

\* Only the run that makes a step has more or less to do after it.
LEMMA TodosOfOne ==
    ASSUME PagingTypeOK, Sorted, Grows, NEW r \in Run, NEW value,
           \A q \in Run : q # r =>
              /\ phase'[q] = phase[q] /\ CallOf(q)' = CallOf(q)
              /\ unread'[q] = unread[q] /\ handled'[q] = handled[q],
           Todo(r)' = value
    PROVE  Todos' = [Todos EXCEPT ![r] = value]
<1>1. \A q \in Run : q # r => Todo(q)' = Todo(q)
  BY TodoStays
<1>2. Todos' = [q \in Run |-> Todo(q)']
  BY DEF Todos
<1> QED
  BY <1>1, <1>2 DEF Todos

\* An insert adds the ids of the batch to the table, and takes none from it.
LEMMA KeptGrows ==
    ASSUME TypeInv, OrderInv, NEW r \in Run, Insert(r)
    PROVE  Kept' = Kept \cup Ids(batch[r]) /\ Ids(batch[r]) \subseteq Record
<1>1. \A x \in Record : /\ HasRow(batch[r], x) <=> x \in Ids(batch[r])
                        /\ (table[x] # NoRow \/ HasRow(batch[r], x)) =>
                             table'[x] # NoRow
                        /\ ~HasRow(batch[r], x) => table'[x] = table[x]
  <2>1. \A x \in Record : HasRow(batch[r], x) <=> x \in Ids(batch[r])
    BY DEF HasRow, Ids
  <2>2. \A x \in Record : ~HasRow(batch[r], x) => table'[x] = table[x]
    BY DEF Insert, Merge, HasRow
  <2> QED
    BY <2>1, <2>2, InsertMerges
<1>2. Ids(batch[r]) \subseteq Record
  BY RowTypes DEF Ids
<1>3. Kept' = {x \in Record : table'[x] # NoRow}
  BY DEF Kept
<1> QED
  BY <1>1, <1>2, <1>3 DEF Kept

\* The first state is a first state of Sync.
LEMMA PromisedInit == SRInit => Promised!SYInit
<1> SUFFICES ASSUME SRInit PROVE Promised!SYInit
  OBVIOUS
<1>1. Created = [x \in Record |-> NoTime]
  BY DEF SRInit, PagingInit, Created
<1>2. Todos = [r \in Run |-> {}]
  BY DEF SRInit, PagingInit, Todos, Todo
<1>3. Kept = {}
  BY DEF SRInit, Kept
<1> QED
  BY <1>1, <1>2, <1>3
     DEF Promised!SYInit, SRInit, PagingInit, NoWindow

\* The invariants that hold where a step begins.
PromisedInvs == TypeInv /\ PagesInv /\ OrderInv /\ PromiseInv

\* The clock and the source.
LEMMA PromisedEnvironment ==
    ASSUME PromisedInvs, SRNext, (Tick \/ Appear) /\ UNCHANGED syncVars
    PROVE  Promised!SYNext
<1>1. PagingTypeOK /\ Sorted /\ Grows
  BY SourceGrows DEF PromisedInvs, TypeInv, SRTypeOK, PagesInv
<1>2. UNCHANGED <<connector, runVars, handled, table>>
  BY DEF Tick, Appear, syncVars
<1>3. Todos' = Todos
  <2>1. \A r \in Run : Todo(r)' = Todo(r)
    BY <1>1, <1>2, TodoStays DEF CallOf, runVars
  <2> QED
    BY <2>1 DEF Todos
<1>4. Kept' = Kept
  BY <1>2 DEF Kept
<1>5. CASE Tick
  <2>1. Created' = Created
    BY <1>5 DEF Tick, Created
  <2>2. Promised!Pass
    BY <1>2, <1>3, <1>4, <1>5, <2>1
       DEF Promised!Pass, Promised!runs, Tick, runVars
  <2> QED
    BY <2>2 DEF Promised!SYNext
<1>6. CASE Appear
  <2>0. PICK n \in Record : n = Len(born) + 1
    BY <1>1, <1>6, PagingAssumption DEF Appear, PagingTypeOK, Record
  <2>1. /\ born' = Append(born, clock) /\ clock' = clock
        /\ Len(born) \in Nat /\ DOMAIN born = 1 .. Len(born)
        /\ DOMAIN born' = 1 .. n /\ n \notin DOMAIN born
        /\ born'[n] = clock
    BY <1>1, <1>6, <2>0 DEF Appear, PagingTypeOK
  <2>2. \A x \in Record : Created'[x] = IF x = n THEN clock ELSE Created[x]
    <3>1. \A x \in Record : x \in DOMAIN born' <=> x \in DOMAIN born \/ x = n
      BY <2>0, <2>1 DEF Record
    <3>2. \A x \in DOMAIN born : born'[x] = born[x]
      BY <1>1 DEF Grows
    <3> QED
      BY <2>1, <3>1, <3>2 DEF Created
  <2>3. Created' = [Created EXCEPT ![n] = clock] /\ Created[n] = NoTime
    <3>1. Created' = [x \in Record |-> Created'[x]] /\ Created = [x \in Record |-> Created[x]]
      BY DEF Created
    <3> QED
      BY <2>1, <2>2, <3>1 DEF Created
  <2>4. Promised!Appears(n)
    BY <1>2, <1>3, <1>4, <2>1, <2>3
       DEF Promised!Appears, Promised!runs, runVars
  <2> QED
    BY <2>4 DEF Promised!SYNext
<1> QED
  BY <1>5, <1>6

\* Where only runs move, the source of Sync does not.
LEMMA CreatedStays ==
    ASSUME UNCHANGED <<connector, clock, born>>
    PROVE  UNCHANGED <<connector, clock, Created>>
  BY DEF Created

\* A run is called.
LEMMA PromisedCall ==
    ASSUME PromisedInvs, SRNext, NEW r \in Run, NEW w \in Window, Start(r, w)
    PROVE  Promised!SYNext
<1>1. PagingTypeOK /\ Sorted /\ Grows
  BY SourceGrows DEF PromisedInvs, TypeInv, SRTypeOK, PagesInv
<1>2. /\ UNCHANGED <<connector, clock, born, unread, table, handled>>
      /\ phase[r] = "idle" /\ phase' = [phase EXCEPT ![r] = "running"]
      /\ window' = [window EXCEPT ![r] = w] /\ began' = [began EXCEPT ![r] = clock]
      /\ listed' = [listed EXCEPT ![r] = Len(born)]
  BY DEF Start, Begin
<1>3. /\ phase'[r] = "running" /\ window'[r] = w /\ began'[r] = clock
      /\ listed'[r] = Len(born)
      /\ \A q \in Run : q # r => phase'[q] = phase[q] /\ CallOf(q)' = CallOf(q)
  BY <1>1, <1>2 DEF PagingTypeOK, CallOf
<1>4. unread[r] = {} /\ handled[r] = {}
  BY <1>2 DEF PromisedInvs, PromiseInv, PromiseOrder
<1>5. Todo(r)' = {x \in DOMAIN born : Extracts(connector, w, clock, born[x])}
  <2>1. DOMAIN born = 1 .. Len(born)
    BY <1>1 DEF PagingTypeOK
  <2>2. Owed(r)' = {x \in DOMAIN born : Extracts(connector, w, clock, born[x])}
    BY <1>2, <1>3, <1>4, <2>1 DEF Owed
  <2> QED
    BY <1>2, <1>3, <1>4, <2>2 DEF Todo
<1>6. Todo(r)' = Promised!Selected(w, clock)
  BY <1>1, <1>5, SelectedIsListed
<1>7. Todos' = [Todos EXCEPT ![r] = Promised!Selected(w, clock)]
  BY <1>1, <1>2, <1>3, <1>6, TodosOfOne
<1>8. Created' = Created /\ Kept' = Kept
  BY <1>2 DEF Created, Kept
<1>9. Promised!Call(r, w)
  BY <1>2, <1>7, <1>8 DEF Promised!Call
<1> QED
  BY <1>9 DEF Promised!SYNext

\* A page, or a day, is asked for; what the source withholds is passed over.
LEMMA PromisedRequest ==
    ASSUME PromisedInvs, SRNext, NEW r \in Run, Request(r)
    PROVE  Promised!SYNext \/ UNCHANGED Promised!syVars
<1>1. PagingTypeOK /\ Sorted /\ Grows
  BY SourceGrows DEF PromisedInvs, TypeInv, SRTypeOK, PagesInv
<1>2. /\ UNCHANGED <<connector, clock, born, phase, window, began, listed, table,
                     handled>>
      /\ phase[r] = "running"
  BY DEF Request, FetchPage, CutShort, FetchDay, SkipDay, NextDay, CanRequest, syncVars
<1>3. Created' = Created /\ Kept' = Kept /\ \A q \in Run : CallOf(q)' = CallOf(q)
  BY <1>2 DEF Created, Kept, CallOf
<1>4. ASSUME Todos' = Todos PROVE UNCHANGED Promised!syVars
  BY <1>2, <1>3, <1>4 DEF Promised!syVars, Promised!runs
<1>5. CASE FetchPage(r) \/ FetchDay(r)
  <2>1. unread' = unread
    BY <1>5 DEF FetchPage, FetchDay
  <2>2. \A q \in Run : Todo(q)' = Todo(q)
    BY <1>1, <1>2, <1>3, <2>1, TodoStays
  <2> QED
    BY <1>4, <2>2 DEF Todos
<1>6. ASSUME CutShort(r) \/ SkipDay(r) PROVE Promised!SYNext
  <2> DEFINE lost == IF Tickets THEN OfDay(r) ELSE Rest(r) \ yielded[r]
             passed == Todo(r) \cap lost
  <2>1. /\ connector \in Withholding
        /\ unread' = [unread EXCEPT ![r] = @ \cup lost]
    BY <1>6 DEF CutShort, SkipDay, NextDay, Tickets
  <2>2. Tickets => lost = OfDay(r)
    OBVIOUS
  <2> HIDE DEF lost
  <2>3. /\ unread'[r] = unread[r] \cup lost
        /\ \A q \in Run : q # r => unread'[q] = unread[q]
    BY <1>1, <2>1 DEF PagingTypeOK
  <2>4. \A x \in Todo(r) : x \in Record /\ x \in DOMAIN born /\ Created[x] = born[x]
    <3>1. \A x \in Todo(r) : x \in DOMAIN born
      BY <1>1, OwedListed DEF Todo
    <3> QED
      BY <1>1, <3>1, BornAreRecords DEF Created
  <2>5. Todo(r)' = Todo(r) \ passed
    <3>1. Owed(r)' = Owed(r) \ lost
      BY <1>2, <2>3 DEF Owed
    <3> QED
      BY <1>2, <3>1 DEF Todo
  <2>6. Todos[r] = Todo(r)
    BY DEF Todos
  <2>7. Todos' = [Todos EXCEPT ![r] = @ \ passed]
    <3>1. Todos' = [Todos EXCEPT ![r] = Todo(r) \ passed]
      BY <1>1, <1>2, <1>3, <2>3, <2>5, TodosOfOne
    <3> QED
      BY <2>6, <3>1
  <2>8. ASSUME connector = "kapture_tickets", NEW x \in passed, NEW y \in Todo(r)
        PROVE  y \in passed <=> DayOf(Created[y]) = DayOf(Created[x])
    BY <2>2, <2>4, <2>8 DEF OfDay, Tickets
  <2>9. Promised!PassOver(r, passed)
    BY <1>2, <1>3, <2>1, <2>6, <2>7, <2>8 DEF Promised!PassOver
  <2>10. passed \in SUBSET Record
    BY <2>4
  <2> QED
    BY <2>9, <2>10 DEF Promised!SYNext
<1> QED
  BY <1>5, <1>6 DEF Request

\* A record is batched, or skipped as malformed.
LEMMA PromisedConsume ==
    ASSUME PromisedInvs, SRNext, NEW r \in Run, NEW x \in page[r], Consume(r, x)
    PROVE  Promised!SYNext \/ UNCHANGED Promised!syVars
<1>1. PagingTypeOK /\ Sorted /\ Grows
  BY SourceGrows DEF PromisedInvs, TypeInv, SRTypeOK, PagesInv
<1>2. /\ UNCHANGED <<connector, clock, born, phase, window, began, listed, unread,
                     table>>
      /\ phase[r] = "running"
      /\ x \notin Poison[connector]
  BY DEF Consume, Yield
<1>3. Created' = Created /\ Kept' = Kept /\ \A q \in Run : CallOf(q)' = CallOf(q)
  BY <1>2 DEF Created, Kept, CallOf
<1>4. CASE x \in Accepted[connector]
  <2>1. handled' = handled
    BY <1>4 DEF Consume
  <2>2. \A q \in Run : Todo(q)' = Todo(q)
    BY <1>1, <1>2, <1>3, <2>1, TodoStays
  <2>3. Todos' = Todos
    BY <2>2 DEF Todos
  <2> QED
    BY <1>2, <1>3, <2>3 DEF Promised!syVars, Promised!runs
<1>5. CASE x \notin Accepted[connector]
  <2>1. handled' = [handled EXCEPT ![r] = @ \cup {x}]
    BY <1>5 DEF Consume
  <2>2. /\ handled'[r] = handled[r] \cup {x}
        /\ \A q \in Run : q # r => handled'[q] = handled[q]
    BY <2>1 DEF PromisedInvs, TypeInv, SRTypeOK
  <2>3. Todo(r)' = Todo(r) \ {x} /\ Todos[r] = Todo(r)
    BY <1>1, <1>2, <1>3, <2>2, TodoStays DEF Todos
  <2>4. Todos' = [Todos EXCEPT ![r] = @ \ {x}]
    BY <1>1, <1>2, <1>3, <2>2, <2>3, TodosOfOne
  <2>5. {x} \subseteq Promised!Selected(window[r], began[r])
    BY <1>1, <1>2, SelectedIsListed DEF PromisedInvs, PromiseInv, PromiseOrder
  <2>6. {x} \subseteq Skippable[connector] /\ {x} \in SUBSET Record
    BY <1>1, <1>2, <1>5 DEF Skippable, PagingTypeOK
  <2>7. Kept' = Kept \cup ({x} \ Skippable[connector])
    BY <1>3, <2>6
  <2>8. Promised!Load(r, {x})
    BY <1>2, <1>3, <2>4, <2>5, <2>6, <2>7 DEF Promised!Load, Promised!Takes
  <2> QED
    BY <2>6, <2>8 DEF Promised!SYNext
<1> QED
  BY <1>4, <1>5

\* What an insert takes is valid records of the window.
LEMMA PromisedTakes ==
    ASSUME PromisedInvs, NEW r \in Run, Insert(r), NEW ids, ids = Ids(batch[r])
    PROVE  ids \in SUBSET Record /\ Promised!Takes(r, ids)
<1>1. PagingTypeOK /\ TypeInv /\ OrderInv
  BY DEF PromisedInvs, TypeInv, SRTypeOK
<1>2. phase[r] = "running" /\ Loadable(connector)
  BY <1>1 DEF Insert, CanFlush, Takes, OrderInv, BatchOrder
<1>3. Kept' = Kept \cup ids /\ ids \in SUBSET Record
  BY <1>1, KeptGrows
<1>4. ids \subseteq Promised!Selected(window[r], began[r])
  BY <1>1, <1>2, SelectedIsListed DEF PromisedInvs, PromiseInv, PromiseOrder
<1>5. ids \cap Skippable[connector] = {}
  <2>1. ids \subseteq Accepted[connector]
    BY <1>1 DEF OrderInv, BatchOrder, Ids
  <2> QED
    BY <1>1, <2>1 DEF Skippable, PagingTypeOK
<1>6. Kept' = Kept \cup (ids \ Skippable[connector])
  BY <1>3, <1>5
<1> QED
  BY <1>2, <1>3, <1>4, <1>6 DEF Promised!Takes

\* A batch is loaded.
LEMMA PromisedFlush ==
    ASSUME PromisedInvs, SRNext, NEW r \in Run, Flush(r)
    PROVE  Promised!SYNext
<1>1. PagingTypeOK /\ Sorted /\ Grows
  BY SourceGrows DEF PromisedInvs, TypeInv, SRTypeOK, PagesInv
<1>2. /\ UNCHANGED <<connector, clock, born, phase, window, began, listed, unread>>
      /\ Insert(r) /\ handled' = [handled EXCEPT ![r] = @ \cup Ids(batch[r])]
  BY DEF Flush, Insert, pagingVars, runVars
<1>3. PICK ids : ids = Ids(batch[r])
  OBVIOUS
<1>4. /\ handled'[r] = handled[r] \cup ids
      /\ \A q \in Run : q # r => handled'[q] = handled[q]
  BY <1>2, <1>3 DEF PromisedInvs, TypeInv, SRTypeOK
<1>5. Created' = Created /\ \A q \in Run : CallOf(q)' = CallOf(q)
  BY <1>2 DEF Created, CallOf
<1>6. Todo(r)' = Todo(r) \ ids /\ Todos[r] = Todo(r)
  BY <1>1, <1>2, <1>4, <1>5, TodoStays DEF Todos
<1>7. Todos' = [Todos EXCEPT ![r] = @ \ ids]
  BY <1>1, <1>2, <1>4, <1>5, <1>6, TodosOfOne
<1>8. ids \in SUBSET Record /\ Promised!Takes(r, ids)
  BY <1>2, <1>3, PromisedTakes
<1>9. Promised!Load(r, ids)
  BY <1>2, <1>5, <1>7, <1>8 DEF Promised!Load
<1> QED
  BY <1>8, <1>9 DEF Promised!SYNext

\* A run succeeds: it has yielded all that it owed, and its last batch is empty.
LEMMA PromisedFinish ==
    ASSUME PromisedInvs, SRNext, NEW r \in Run, Finish(r)
    PROVE  Promised!SYNext
<1>1. PagingTypeOK /\ Sorted /\ Grows
  BY SourceGrows DEF PromisedInvs, TypeInv, SRTypeOK, PagesInv
<1>2. /\ UNCHANGED <<connector, clock, born, window, began, listed, unread, table,
                     handled>>
      /\ phase' = [phase EXCEPT ![r] = "success"]
      /\ phase[r] = "running" /\ page[r] = {} /\ last[r] /\ batch[r] = <<>>
  BY DEF Finish, Done, Exhausted, End, syncVars
<1>3. Todo(r) = {}
  <2>1. Owed(r) \subseteq yielded[r]
    BY <1>2 DEF PromisedInvs, PagesInv, Waits
  <2>2. yielded[r] \subseteq handled[r]
    BY <1>2 DEF PromisedInvs, PromiseInv, PromiseOrder, Ids
  <2> QED
    BY <2>1, <2>2 DEF Todo
<1>4. /\ phase'[r] = "success"
      /\ \A q \in Run : q # r => phase'[q] = phase[q]
      /\ \A q \in Run : CallOf(q)' = CallOf(q)
  BY <1>1, <1>2 DEF PagingTypeOK, CallOf
<1>5. Todo(r)' = {} /\ Todos[r] = {}
  BY <1>3, <1>4 DEF Todo, Todos
<1>6. Todos' = Todos
  <2>1. \A q \in Run : Todo(q)' = Todo(q)
    BY <1>1, <1>2, <1>3, <1>4, <1>5, TodoStays
  <2> QED
    BY <2>1 DEF Todos
<1>7. Created' = Created /\ Kept' = Kept
  BY <1>2 DEF Created, Kept
<1>8. Promised!Succeed(r)
  BY <1>2, <1>5, <1>6, <1>7 DEF Promised!Succeed
<1> QED
  BY <1>8 DEF Promised!SYNext

\* A run fails, with or without the rows of its last batch in the table.
LEMMA PromisedFail ==
    ASSUME PromisedInvs, SRNext, NEW r \in Run, End(r, "error"),
           \/ UNCHANGED <<table, handled>>
           \/ Insert(r)
    PROVE  Promised!SYNext
<1>1. PagingTypeOK /\ Sorted /\ Grows
  BY SourceGrows DEF PromisedInvs, TypeInv, SRTypeOK, PagesInv
<1>2. /\ UNCHANGED <<connector, clock, born, window, began, listed, unread>>
      /\ phase' = [phase EXCEPT ![r] = "error"] /\ phase[r] = "running"
  BY DEF End
<1>3. /\ phase'[r] = "error"
      /\ \A q \in Run : q # r => phase'[q] = phase[q]
      /\ \A q \in Run : CallOf(q)' = CallOf(q)
      /\ \A q \in Run : q # r => handled'[q] = handled[q]
  BY <1>1, <1>2 DEF PagingTypeOK, CallOf, Insert, PromisedInvs, TypeInv, SRTypeOK
<1>4. Todo(r)' = {}
  BY <1>3 DEF Todo
<1>5. Todos' = [Todos EXCEPT ![r] = {}]
  BY <1>1, <1>2, <1>3, <1>4, TodosOfOne
<1>6. Created' = Created
  BY <1>2 DEF Created
<1>7. PICK ids \in SUBSET Record : Promised!Takes(r, ids)
  <2>1. CASE UNCHANGED <<table, handled>>
    <3>1. Kept' = Kept \cup ({} \ Skippable[connector])
      BY <2>1 DEF Kept
    <3>2. Promised!Takes(r, {})
      BY <1>2, <3>1 DEF Promised!Takes
    <3> QED
      BY <3>2
  <2>2. CASE Insert(r)
    <3>1. PICK ids : ids = Ids(batch[r])
      OBVIOUS
    <3> QED
      BY <2>2, <3>1, PromisedTakes
  <2> QED
    BY <2>1, <2>2
<1>8. Promised!Fail(r, ids)
  BY <1>2, <1>5, <1>6, <1>7 DEF Promised!Fail
<1> QED
  BY <1>7, <1>8 DEF Promised!SYNext

\* Every step of a run, its source and the clock is a step of Sync, or invisible.
LEMMA PromisedStep ==
    PromisedInvs /\ [SRNext]_srVars => [Promised!SYNext]_Promised!syVars
<1> SUFFICES ASSUME PromisedInvs, [SRNext]_srVars
             PROVE  Promised!SYNext \/ UNCHANGED Promised!syVars
  OBVIOUS
<1>1. CASE UNCHANGED srVars
  <2>1. UNCHANGED <<connector, clock, born, phase, window, began, listed, unread,
                    table, handled>>
    BY <1>1 DEF srVars, pagingVars, runVars, syncVars
  <2>2. UNCHANGED <<Created, Todos, Kept>>
    BY <2>1 DEF Created, Todos, Todo, Owed, Tickets, Kept
  <2> QED
    BY <2>1, <2>2 DEF Promised!syVars, Promised!runs
<1>2. CASE SRNext
  <2>1. CASE (Tick \/ Appear) /\ UNCHANGED syncVars
    BY <1>2, <2>1, PromisedEnvironment
  <2>2. ASSUME NEW r \in Run, NEW w \in Window, Start(r, w) PROVE Promised!SYNext
    BY <1>2, <2>2, PromisedCall
  <2>3. ASSUME NEW r \in Run, Request(r)
        PROVE  Promised!SYNext \/ UNCHANGED Promised!syVars
    BY <1>2, <2>3, PromisedRequest
  <2>4. ASSUME NEW r \in Run, NEW x \in page[r], Consume(r, x)
        PROVE  Promised!SYNext \/ UNCHANGED Promised!syVars
    BY <1>2, <2>4, PromisedConsume
  <2>5. ASSUME NEW r \in Run, Flush(r) PROVE Promised!SYNext
    BY <1>2, <2>5, PromisedFlush
  <2>6. ASSUME NEW r \in Run, Finish(r) PROVE Promised!SYNext
    BY <1>2, <2>6, PromisedFinish
  <2>7. ASSUME NEW r \in Run, Break(r), UNCHANGED <<table, handled>>
        PROVE  Promised!SYNext
    BY <1>2, <2>7, PromisedFail DEF Break
  <2>8. ASSUME NEW r \in Run, InsertUnconfirmed(r) PROVE Promised!SYNext
    BY <1>2, <2>8, PromisedFail DEF InsertUnconfirmed
  <2> QED
    BY <1>2, <2>1, <2>2, <2>3, <2>4, <2>5, <2>6, <2>7, <2>8
       DEF SRNext, RunFails, TransformRaises, Refused
<1> QED
  BY <1>1, <1>2

\* A run is what Turbocat takes it for: pages, batches, rows and stamps implement a
\* set of records that shrinks to nothing before the run succeeds.
THEOREM RunsKeepTheirPromise == SRSpec => SyncsAsPromised
<1>1. SRInit => PromisedInvs
  BY TypesInit, PagesInit, OrderInit, PromiseInit DEF PromisedInvs
<1>2. PromisedInvs /\ [SRNext]_srVars => PromisedInvs'
  BY TypesStep, PagesStep, OrderStep, PromiseStep DEF PromisedInvs
<1> QED
  BY <1>1, <1>2, PromisedInit, PromisedStep, PTL
     DEF SRSpec, SyncsAsPromised, Promised!SYSpec
=============================================================================
