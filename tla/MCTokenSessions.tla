--------------------------- MODULE MCTokenSessions ---------------------------
(* Instances of TokenSessions for TLC. *)
EXTENDS TokenSessions, TLC

CONSTANTS u1, u2, e1, e2, r1, r2

\* A collation that tells all emails apart.
IdentityCollation == [e \in Emails |-> e]

OneUser == {[id |-> u1, email |-> e1, role |-> "user"]}
TwoUsers == OneUser \union {[id |-> u2, email |-> e2, role |-> "user"]}

ReqSymmetry == Permutations(Req)

=============================================================================
