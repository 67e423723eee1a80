----------------------------- MODULE Extraction -----------------------------
(***************************************************************************)
(* Which records of its source a connector fetches for a window, by the    *)
(* time they were created: what the three extract() methods ask the APIs   *)
(* for, and what the destination can take.  Paging is left out: a page is  *)
(* any part of the answer; module Paging has the requests.                 *)
(***************************************************************************)
EXTENDS Times, Rows

CONSTANT DayLength      \* clock units in a day

ASSUME ExtractionAssumption == DayLength \in Nat \ {0}

DayOf(t) == t \div DayLength

\* from / to, both inclusive and both optional.
OrderInWindow(w, c) ==
    /\ w.start # NoTime => w.start <= c
    /\ w.end # NoTime => c <= w.end

\* One request per calendar day; with no start_time the first day is today.
TicketInWindow(w, clock, c) ==
    /\ DayOf(IF w.start = NoTime THEN clock ELSE w.start) <= DayOf(c)
    /\ DayOf(c) <= DayOf(IF w.end = NoTime THEN clock ELSE w.end)

\* The customers endpoint takes no window: every page of the list is read.
Extracts(connector, w, clock, c) ==
    CASE connector = "razorpay_orders" -> OrderInWindow(w, c)
      [] connector = "razorpay_customers" -> TRUE
      [] connector = "kapture_tickets" -> TicketInWindow(w, clock, c)
=============================================================================
