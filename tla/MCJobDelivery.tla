--------------------------- MODULE MCJobDelivery ---------------------------
(* Small instances of JobDelivery for TLC. *)
EXTENDS JobDelivery, TLC

CONSTANTS m1, m2, bad, a, b

\* Every message has an id of its own.
UniqueIds == (m1 :> a) @@ (m2 :> b)
\* Two messages share an id; bad is no CloudEvent.
SharedIds == (m1 :> a) @@ (m2 :> a) @@ (bad :> b)
=============================================================================
