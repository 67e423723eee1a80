----------------------------- MODULE MCSyncRun -----------------------------
(***************************************************************************)
(* The sync loop for TLC: pages and batches that do not fit one another,   *)
(* and records of every fate: one that is rejected by validate(), one with *)
(* nothing but its required fields, one that transform() chokes on and one *)
(* that ClickHouse does not take: a customer with no notes.                *)
(***************************************************************************)
EXTENDS SyncRun, TLC

CONSTANTS q1, q2

MCWindow == {[start |-> NoTime, end |-> NoTime], [start |-> 1, end |-> 1]}

\* A record whose named fields have a shape other than the usual one.
Odd(c, shapes) ==
    [col \in Keys(c) |-> IF col \in DOMAIN shapes THEN shapes[col] ELSE "usual"]

\* The optional fields of a record are missing.
Bare(c) == [col \in Keys(c) \ Schema(c).required |-> "null"]

MCContent ==
    [razorpay_orders |->
       <<Odd("razorpay_orders", Bare("razorpay_orders")),
         Odd("razorpay_orders", [status |-> "null"]),
         Odd("razorpay_orders", [amount |-> "absent", receipt |-> "empty"])>>,
     razorpay_customers |->
       <<Odd("razorpay_customers", Bare("razorpay_customers")),
         Odd("razorpay_customers", [notes |-> "hollow"]),
         Odd("razorpay_customers", [contact |-> "absent"])>>,
     kapture_tickets |->
       <<Odd("kapture_tickets", [ticket_id |-> "absent"]),
         Odd("kapture_tickets", Bare("kapture_tickets")),
         Odd("kapture_tickets", [created_at |-> "object"])>>]

\* Runs are interchangeable.
MCSymmetry == Permutations(Run)
=============================================================================
