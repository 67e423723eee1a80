--------------------------- MODULE MCConnections ---------------------------
(***************************************************************************)
(* Connections for TLC: c1 and c2 are connections of one account to        *)
(* Razorpay, which share the name of their secret, c3 is one to Kapture    *)
(* and c4 one to a source that is not registered.  Credentials k1 make a   *)
(* configuration of either source, for Kapture with what the environment   *)
(* adds, and k2 one of Razorpay only.                                      *)
(***************************************************************************)
EXTENDS Connections, TLC

CONSTANTS c1, c2, c3, c4, f1, f2, f3, k1, k2, t1, t2

MCRefOf ==
    [c \in Connection |-> CASE c = c3 -> f2 [] c = c4 -> f3 [] OTHER -> f1]

MCSourceOf ==
    [c \in Connection |-> CASE c = c3 -> "kapture" [] c = c4 -> "stripe"
                            [] OTHER -> "razorpay"]

MCFieldsOf ==
    [k \in Credential |-> {"api_key", "api_secret"} \cup
                          (IF k = k1 THEN {"token"} ELSE {})]

\* Handler threads are interchangeable.
RequestSymmetry == Permutations(Request)
=============================================================================
