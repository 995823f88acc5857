----------------------------- MODULE MCAuditLog -----------------------------
(* An instance of AuditLog for TLC. *)
EXTENDS AuditLog, TLC

CONSTANTS e1, e2, e3, e4, a, b

\* Two publishers race for the anchor of one identity.
MCIdentity == (a :> "db") @@ (b :> "db")

\* The events that fit are interchangeable, and so are the publishers.
MCSymmetry == Permutations({e1, e2, e3}) \cup Permutations({a, b})
=============================================================================
